---- MODULE Spec2Model ----
(***************************************************************************)
(* Model of backend/app/services/cache.py: AIResponseCache, the Redis      *)
(* backed cache of AI responses.                                           *)
(*                                                                         *)
(* Strings are sequences of tokens; the separator ":" is a token of its    *)
(* own, every other token is a colon-free piece of text.  A Python dict is *)
(* the sequence of its <<key, value>> items in insertion order.  Python    *)
(* None and the empty dict are both the empty sequence where the code only *)
(* tests truthiness (context, identifier).                                 *)
(***************************************************************************)
EXTENDS Integers, Sequences, FiniteSets, TLC

VARIABLES client, default_strategy, store, access_counts, warm_cache_keys,
          metrics, last, fate, probe

vars == <<client, default_strategy, store, access_counts, warm_cache_keys,
          metrics, last, fate, probe>>

cacheVars == <<client, default_strategy, store, access_counts,
               warm_cache_keys, metrics, last, fate>>

(***************************************************************************)
(* CacheStrategy and the TTL table                                         *)
(***************************************************************************)
AGGRESSIVE == "aggressive"

MODERATE == "moderate"

CONSERVATIVE == "conservative"

ADAPTIVE == "adaptive"

CacheStrategy == {AGGRESSIVE, MODERATE, CONSERVATIVE, ADAPTIVE}

\* strategy=None at the call site
NoStrategy == "none"

TTL_MAPPING ==
  [s \in CacheStrategy |->
     CASE s = AGGRESSIVE -> 3600
       [] s = MODERATE -> 900
       [] s = CONSERVATIVE -> 300
       [] s = ADAPTIVE -> 600]

KEY_PREFIX == <<"ai_cache">>

\* adaptive thresholds of set: access_count > 10, access_count < 2
HotThreshold == 10

ColdThreshold == 2

(***************************************************************************)
(* Key builder                                                             *)
(***************************************************************************)
\* lexicographic order of the context keys the model uses
KeyRank(k) ==
  CASE k = "environment" -> 1
    [] k = "form_type" -> 2
    [] k = "user_id" -> 3

ItemLess(a, b) == KeyRank(a[1]) < KeyRank(b[1])

RECURSIVE InsertSorted(_, _)
InsertSorted(item, s) ==
  IF s = <<>> THEN <<item>>
  ELSE IF ItemLess(item, Head(s)) THEN <<item>> \o s
       ELSE <<Head(s)>> \o InsertSorted(item, Tail(s))

\* sorted(context.items())
RECURSIVE SortedItems(_)
SortedItems(context) ==
  IF context = <<>> THEN <<>>
  ELSE InsertSorted(Head(context), SortedItems(Tail(context)))

\* hashlib.md5(json.dumps(items).encode()).hexdigest()[:8]; the digest is
\* one colon-free token, distinct for distinct serialised item lists
ContextHash(items) == ToString(items)

RECURSIVE Join(_)
Join(parts) ==
  IF Len(parts) = 1 THEN Head(parts)
  ELSE Head(parts) \o <<":">> \o Join(Tail(parts))

\* variant of GenerateCacheKey that hashes the items in insertion order
GenerateCacheKeyUnsorted(cache_type, identifier, context) ==
  LET key_parts == <<KEY_PREFIX, cache_type, identifier>>
  IN IF context # <<>>
       THEN Join(Append(key_parts, <<ContextHash(context)>>))
       ELSE Join(key_parts)

\* _generate_cache_key
GenerateCacheKey(cache_type, identifier, context) ==
  LET key_parts == <<KEY_PREFIX, cache_type, identifier>>
  IN IF context # <<>>
       THEN Join(Append(key_parts, <<ContextHash(SortedItems(context))>>))
       ELSE Join(key_parts)

KeyOf(t) == GenerateCacheKey(t.cache_type, t.identifier, t.context)

(***************************************************************************)
(* json.dumps / json.loads on the values the model caches                  *)
(***************************************************************************)
\* A Python value: its type, the type of its dict keys ("-" when it is not
\* a dict) and its content as text tokens.
PyValue(type, ktype, body) == [type |-> type, ktype |-> ktype, body |-> body]

PyNone == PyValue("NoneType", "-", <<>>)

\* json.dumps(value): tuples and lists both become arrays, dict keys become
\* strings; an object json cannot encode raises TypeError
JsonSerializable(v) == v.type \in {"dict", "list", "tuple", "str", "NoneType"}

JsonDumps(v) ==
  CASE v.type \in {"list", "tuple"} -> [kind |-> "array", body |-> v.body]
    [] v.type = "dict" -> [kind |-> "object", body |-> v.body]
    [] v.type = "str" -> [kind |-> "string", body |-> v.body]
    [] v.type = "NoneType" -> [kind |-> "null", body |-> <<>>]

\* json.loads(text): arrays come back as lists, objects as str-keyed dicts
JsonLoads(text) ==
  CASE text.kind = "array" -> PyValue("list", "-", text.body)
    [] text.kind = "object" -> PyValue("dict", "str", text.body)
    [] text.kind = "string" -> PyValue("str", "-", text.body)
    [] text.kind = "null" -> PyNone

\* json.loads raises for a text that is not JSON
JsonParsable(text) == text.kind \in {"array", "object", "string", "null"}

(***************************************************************************)
(* Partial maps: the Redis keyspace and the Python dicts of the cache      *)
(***************************************************************************)
Put(f, k, v) == [x \in (DOMAIN f) \cup {k} |-> IF x = k THEN v ELSE f[x]]

Drop(f, ks) == [x \in (DOMAIN f) \ ks |-> f[x]]

\* self._access_counts.get(key, 0)
AccessCount(key) == IF key \in DOMAIN access_counts THEN access_counts[key] ELSE 0

IsPrefix(p, s) == Len(p) <= Len(s) /\ SubSeq(s, 1, Len(p)) = p

\* scan_iter(f"{KEY_PREFIX}:{cache_type}:*") over the keyspace
ScanType(cache_type) ==
  {k \in DOMAIN store : IsPrefix(KEY_PREFIX \o <<":">> \o cache_type \o <<":">>, k)}

\* ttl_override: <<>> is None, <<n>> the integer n; `if ttl_override:`
Truthy(ttl_override) == ttl_override # <<>> /\ ttl_override[1] # 0

(***************************************************************************)
(* The outcome of the last step, as the caller observes it                 *)
(***************************************************************************)
NoKey == <<>>

\* what a get records of the step before it: a set or an invalidate of the
\* same key that succeeded, with the value set and the state invalidated
NoBefore == [op |-> "-", arg |-> PyNone, pre |-> {}]

\* the report of an operation that returns none: warm_cache returns
\* success_count for its batch (entries, and errs: the entries whose store
\* write fails); optimize_cache returns keys_analyzed, keys_evicted and
\* whether it recorded an error; used_memory is what the store answers to
\* the info("memory") of get_metrics; executed and set_calls count the calls
\* a cache_ai_response wrapper made of its function and of set
NoReport ==
  [success_count |-> 0, entries |-> <<>>, errs |-> {},
   keys_analyzed |-> 0, keys_evicted |-> 0, error |-> FALSE,
   used_memory |-> 0, executed |-> 0, set_calls |-> 0]

\* op, key: the operation and the key (or scan pattern) it addressed;
\* arg, strategy_arg, ttl_override: the arguments of a set;
\* value: what get returned; ok: the operation did what it was asked;
\* deleted: what invalidate returned; ttl, strategy: what set passed to setex;
\* store_error: a store round trip failed; raised: an exception left the call;
\* pre: the state of the key before an invalidate;
\* report: what warm_cache and optimize_cache return
Outcome(op, key) ==
  [op |-> op, key |-> key, arg |-> PyNone, strategy_arg |-> NoStrategy,
   ttl_override |-> <<>>, value |-> PyNone, ok |-> FALSE,
   deleted |-> 0, ttl |-> 0, strategy |-> NoStrategy,
   store_error |-> FALSE, raised |-> FALSE, pre |-> {}, before |-> NoBefore,
   report |-> NoReport]

\* the step before was a successful set or invalidate of this very key
Before(key) ==
  IF last.op \in {"set", "invalidate"} /\ last.ok /\ last.key = key
    THEN [op |-> last.op, arg |-> last.arg, pre |-> last.pre]
    ELSE NoBefore

\* the state of a key as an invalidate finds it
PreTags(key) ==
  (IF key \in DOMAIN store THEN {"present"} ELSE {})
  \cup (IF key \in DOMAIN access_counts THEN {"tracked"} ELSE {})
  \cup (IF AccessCount(key) > HotThreshold THEN {"hot"} ELSE {})
  \cup (IF key \in warm_cache_keys THEN {"warm"} ELSE {})

(***************************************************************************)
(* AIResponseCache.__init__                                                *)
(***************************************************************************)
\* CacheMetrics(): the counters and the memory footprint of the store
NewMetrics == [hits |-> 0, misses |-> 0, evictions |-> 0, cache_size_bytes |-> 0]

NoProbe == [phase |-> "idle", a |-> <<>>, b |-> <<>>, ka |-> <<>>, kb |-> <<>>]

CacheInit(strategies) ==
  /\ client = FALSE
  /\ default_strategy \in strategies
  /\ store = <<>>
  /\ access_counts = <<>>
  /\ warm_cache_keys = {}
  /\ metrics = NewMetrics
  /\ last = Outcome("init", NoKey)
  /\ fate = <<>>

(***************************************************************************)
(* connect / disconnect                                                    *)
(***************************************************************************)
\* connect(): redis.from_url either yields a client or raises
Connect(conn_err) ==
  /\ IF client THEN /\ UNCHANGED client
                    /\ last' = Outcome("connect", NoKey)
     ELSE IF conn_err
            THEN /\ UNCHANGED client
                 /\ last' = [Outcome("connect", NoKey) EXCEPT !.raised = TRUE]
            ELSE /\ client' = TRUE
                 /\ last' = Outcome("connect", NoKey)
  /\ UNCHANGED <<default_strategy, store, access_counts, warm_cache_keys,
                 metrics, fate, probe>>

Disconnect ==
  /\ client' = FALSE
  /\ last' = Outcome("disconnect", NoKey)
  /\ UNCHANGED <<default_strategy, store, access_counts, warm_cache_keys,
                 metrics, fate, probe>>

\* `if not self._client: await self.connect()` at the head of an operation
\* raised: the exception leaves the operation before anything else happens
ConnectRaised(op, key, conn_err) ==
  /\ ~client /\ conn_err
  /\ last' = [Outcome(op, key) EXCEPT !.raised = TRUE]
  /\ UNCHANGED <<client, default_strategy, store, access_counts,
                 warm_cache_keys, metrics, fate, probe>>

(***************************************************************************)
(* get                                                                     *)
(***************************************************************************)
\* variant of GetHit that counts the hit as a miss
GetHitAsMiss(key) ==
  /\ metrics' = [metrics EXCEPT !.misses = @ + 1]
  /\ access_counts' = Put(access_counts, key, AccessCount(key) + 1)
  /\ last' = IF JsonParsable(store[key].value)
               THEN [Outcome("get", key) EXCEPT
                       !.value = JsonLoads(store[key].value), !.ok = TRUE,
                       !.before = Before(key)]
               ELSE [Outcome("get", key) EXCEPT !.before = Before(key)]

\* `if value:` holds (a stored text is never empty): count the hit and the
\* access, return json.loads of the text; when json.loads raises, the
\* except of get returns None after the hit and the access were counted
GetHit(key) ==
  /\ metrics' = [metrics EXCEPT !.hits = @ + 1]
  /\ access_counts' = Put(access_counts, key, AccessCount(key) + 1)
  /\ last' = IF JsonParsable(store[key].value)
               THEN [Outcome("get", key) EXCEPT
                       !.value = JsonLoads(store[key].value), !.ok = TRUE,
                       !.before = Before(key)]
               ELSE [Outcome("get", key) EXCEPT !.before = Before(key)]

\* variant of GetMiss that does not count the miss
GetMissUncounted(key) ==
  /\ UNCHANGED <<metrics, access_counts>>
  /\ last' = [Outcome("get", key) EXCEPT !.ok = TRUE, !.before = Before(key)]

\* variant of GetMiss that records an access of the missing key
GetMissCounted(key) ==
  /\ metrics' = [metrics EXCEPT !.misses = @ + 1]
  /\ access_counts' = Put(access_counts, key, AccessCount(key) + 1)
  /\ last' = [Outcome("get", key) EXCEPT !.ok = TRUE, !.before = Before(key)]

\* the else branch: count the miss, return None
GetMiss(key) ==
  /\ metrics' = [metrics EXCEPT !.misses = @ + 1]
  /\ UNCHANGED access_counts
  /\ last' = [Outcome("get", key) EXCEPT !.ok = TRUE, !.before = Before(key)]

\* variant of Get that records the access before the read of the store
GetCountsFirst(t, conn_err, store_err) ==
  LET key == KeyOf(t)
  IN \/ ConnectRaised("get", key, conn_err)
     \/ /\ client \/ ~conn_err
        /\ client' = TRUE
        /\ IF store_err
             THEN /\ last' = [Outcome("get", key) EXCEPT
                                !.store_error = TRUE, !.before = Before(key)]
                  /\ access_counts' = Put(access_counts, key, AccessCount(key) + 1)
                  /\ UNCHANGED metrics
             ELSE IF key \in DOMAIN store
                    THEN GetHit(key)
                    ELSE GetMiss(key)
        /\ UNCHANGED <<default_strategy, store, warm_cache_keys, fate, probe>>

Get(t, conn_err, store_err) ==
  LET key == KeyOf(t)
  IN \/ ConnectRaised("get", key, conn_err)
     \/ /\ client \/ ~conn_err
        /\ client' = TRUE
        /\ IF store_err
             THEN /\ last' = [Outcome("get", key) EXCEPT
                                !.store_error = TRUE, !.before = Before(key)]
                  /\ UNCHANGED <<metrics, access_counts>>
             ELSE IF key \in DOMAIN store
                    THEN GetHit(key)
                    ELSE GetMiss(key)
        /\ UNCHANGED <<default_strategy, store, warm_cache_keys, fate, probe>>

(***************************************************************************)
(* set                                                                     *)
(***************************************************************************)
\* `strategy = strategy or self.default_strategy`
EffectiveStrategy(strategy) ==
  IF strategy = NoStrategy THEN default_strategy ELSE strategy

\* variant of AdaptiveTTL with the two factors exchanged
AdaptiveTTLSwapped(ttl, access_count) ==
  IF access_count > HotThreshold THEN ttl \div 2
  ELSE IF access_count < ColdThreshold THEN (ttl * 3) \div 2
       ELSE ttl

\* the adaptive adjustment of the base TTL: int(ttl * 1.5), int(ttl * 0.5)
AdaptiveTTL(ttl, access_count) ==
  IF access_count > HotThreshold THEN (ttl * 3) \div 2
  ELSE IF access_count < ColdThreshold THEN ttl \div 2
       ELSE ttl

\* variant of DetermineTTL that adjusts the TTL of every strategy
DetermineTTLAllAdaptive(key, strategy, ttl_override) ==
  IF Truthy(ttl_override) THEN ttl_override[1]
  ELSE AdaptiveTTL(TTL_MAPPING[strategy], AccessCount(key))

\* "Determine TTL" of set, for a strategy of the TTL table
DetermineTTL(key, strategy, ttl_override) ==
  IF Truthy(ttl_override) THEN ttl_override[1]
  ELSE IF strategy = ADAPTIVE
         THEN AdaptiveTTL(TTL_MAPPING[strategy], AccessCount(key))
         ELSE TTL_MAPPING[strategy]

\* variant of SetWrite that records the warm key before it writes
SetWriteWarmFirst(key, out0, value, strategy, ttl, store_err) ==
  LET out == [out0 EXCEPT !.ttl = ttl]
      warm == IF strategy = AGGRESSIVE
                THEN warm_cache_keys \cup {key}
                ELSE warm_cache_keys
  IN IF ~JsonSerializable(value)
       THEN /\ last' = out
            /\ warm_cache_keys' = warm
            /\ UNCHANGED <<store, fate>>
       ELSE IF store_err \/ ttl <= 0
              THEN /\ last' = [out EXCEPT !.store_error = TRUE]
                   /\ warm_cache_keys' = warm
                   /\ UNCHANGED <<store, fate>>
              ELSE /\ store' = Put(store, key,
                                   [value |-> JsonDumps(value), ttl |-> ttl])
                   /\ warm_cache_keys' = warm
                   /\ fate' = Put(fate, key, "written")
                   /\ last' = [out EXCEPT !.ok = TRUE]

\* the try block of set: json.dumps, setex, the warm set
SetWrite(key, out0, value, strategy, ttl, store_err) ==
  LET out == [out0 EXCEPT !.ttl = ttl]
  IN IF ~JsonSerializable(value)
       THEN /\ last' = out
            /\ UNCHANGED <<store, warm_cache_keys, fate>>
       ELSE IF store_err \/ ttl <= 0
              THEN /\ last' = [out EXCEPT !.store_error = TRUE]
                   /\ UNCHANGED <<store, warm_cache_keys, fate>>
              ELSE /\ store' = Put(store, key,
                                   [value |-> JsonDumps(value), ttl |-> ttl])
                   /\ warm_cache_keys' =
                        IF strategy = AGGRESSIVE
                          THEN warm_cache_keys \cup {key}
                          ELSE warm_cache_keys
                   /\ fate' = Put(fate, key, "written")
                   /\ last' = [out EXCEPT !.ok = TRUE]

Set(t, value, strategy_arg, ttl_override, conn_err, store_err) ==
  LET key == KeyOf(t)
      strategy == EffectiveStrategy(strategy_arg)
      out == [Outcome("set", key) EXCEPT
                !.arg = value, !.strategy_arg = strategy_arg,
                !.ttl_override = ttl_override, !.strategy = strategy]
  IN \/ ConnectRaised("set", key, conn_err)
     \/ /\ client \/ ~conn_err
        /\ client' = TRUE
        /\ IF ~Truthy(ttl_override) /\ strategy \notin CacheStrategy
             THEN \* TTL_MAPPING[strategy] raises KeyError
                  /\ last' = [out EXCEPT !.raised = TRUE]
                  /\ UNCHANGED <<store, warm_cache_keys, fate>>
             ELSE SetWrite(key, out, value, strategy,
                           DetermineTTL(key, strategy, ttl_override), store_err)
        /\ UNCHANGED <<default_strategy, access_counts, metrics, probe>>

(***************************************************************************)
(* invalidate                                                              *)
(***************************************************************************)
\* variant of InvalidateKeys that finds nothing to remove
InvalidateKeysNone(cache_type, identifier, context) == {}

\* the keys the call removes: the one key, or the scan of the type
InvalidateKeys(cache_type, identifier, context) ==
  IF identifier # <<>>
    THEN {GenerateCacheKey(cache_type, identifier, context)}
    ELSE ScanType(cache_type)

\* variant of Invalidate that keeps the access counters of the removed keys
InvalidateKeepsCounter(cache_type, identifier, context, conn_err, store_err) ==
  LET keys == InvalidateKeys(cache_type, identifier, context)
      key == IF identifier # <<>>
               THEN GenerateCacheKey(cache_type, identifier, context)
               ELSE KEY_PREFIX \o <<":">> \o cache_type \o <<":", "*">>
      deleted == Cardinality(keys \cap DOMAIN store)
  IN \/ ConnectRaised("invalidate", key, conn_err)
     \/ /\ client \/ ~conn_err
        /\ client' = TRUE
        /\ IF store_err
             THEN /\ last' = [Outcome("invalidate", key) EXCEPT
                                !.store_error = TRUE]
                  /\ UNCHANGED <<store, warm_cache_keys, access_counts,
                                 metrics, fate>>
             ELSE /\ store' = Drop(store, keys)
                  /\ warm_cache_keys' = warm_cache_keys \ keys
                  /\ UNCHANGED access_counts
                  /\ metrics' = [metrics EXCEPT !.evictions = @ + deleted]
                  /\ fate' = [k \in DOMAIN fate |->
                                IF k \in keys \cap DOMAIN store
                                  THEN "invalidated" ELSE fate[k]]
                  /\ last' = [Outcome("invalidate", key) EXCEPT
                                !.deleted = deleted, !.ok = TRUE,
                                !.pre = PreTags(key)]
        /\ UNCHANGED <<default_strategy, probe>>

Invalidate(cache_type, identifier, context, conn_err, store_err) ==
  LET keys == InvalidateKeys(cache_type, identifier, context)
      key == IF identifier # <<>>
               THEN GenerateCacheKey(cache_type, identifier, context)
               ELSE KEY_PREFIX \o <<":">> \o cache_type \o <<":", "*">>
      deleted == Cardinality(keys \cap DOMAIN store)
  IN \/ ConnectRaised("invalidate", key, conn_err)
     \/ /\ client \/ ~conn_err
        /\ client' = TRUE
        /\ IF store_err
             THEN /\ last' = [Outcome("invalidate", key) EXCEPT
                                !.store_error = TRUE]
                  /\ UNCHANGED <<store, warm_cache_keys, access_counts,
                                 metrics, fate>>
             ELSE /\ store' = Drop(store, keys)
                  /\ warm_cache_keys' = warm_cache_keys \ keys
                  /\ access_counts' = Drop(access_counts, keys)
                  /\ metrics' = [metrics EXCEPT !.evictions = @ + deleted]
                  /\ fate' = [k \in DOMAIN fate |->
                                IF k \in keys \cap DOMAIN store
                                  THEN "invalidated" ELSE fate[k]]
                  /\ last' = [Outcome("invalidate", key) EXCEPT
                                !.deleted = deleted, !.ok = TRUE,
                                !.pre = PreTags(key)]
        /\ UNCHANGED <<default_strategy, probe>>

(***************************************************************************)
(* warm_cache                                                              *)
(***************************************************************************)
\* a cache entry is a dict: a record whose domain holds the fields it has
EntryContext(entry) ==
  IF "context" \in DOMAIN entry THEN entry.context ELSE <<>>

\* entry["cache_type"], entry["identifier"], entry["value"] raise KeyError
\* for a field the entry lacks
EntryComplete(entry) ==
  {"cache_type", "identifier", "value"} \subseteq DOMAIN entry

\* what one call of set does to st = [store, warm, fate, count] and whether
\* it returns True: the try block of set on the state the loop has reached
SetResult(st, key, value, strategy, ttl, store_err) ==
  IF ~JsonSerializable(value) \/ store_err \/ ttl <= 0
    THEN st
    ELSE [store |-> Put(st.store, key, [value |-> JsonDumps(value), ttl |-> ttl]),
          warm |-> IF strategy = AGGRESSIVE THEN st.warm \cup {key} ELSE st.warm,
          fate |-> Put(st.fate, key, "written"),
          count |-> st.count + 1]

\* variant of WarmStep that counts an entry whether or not its set succeeded
WarmStepCountsAll(entry, strategy, store_err, st) ==
  LET eff == EffectiveStrategy(strategy)
  IN IF ~EntryComplete(entry) \/ eff \notin CacheStrategy
       THEN [st EXCEPT !.count = @ + 1]
       ELSE LET key == GenerateCacheKey(entry.cache_type, entry.identifier,
                                        EntryContext(entry))
                st1 == SetResult(st, key, entry.value, eff,
                                 DetermineTTL(key, eff, <<>>), store_err)
            IN [st1 EXCEPT !.count = st.count + 1]

\* the body of `for entry in cache_entries:`: a KeyError (missing field,
\* strategy outside the TTL table) is caught by the except of the loop and
\* the entry is not counted; else set is called and counted if it succeeds
WarmStep(entry, strategy, store_err, st) ==
  LET eff == EffectiveStrategy(strategy)
  IN IF ~EntryComplete(entry) \/ eff \notin CacheStrategy
       THEN st
       ELSE LET key == GenerateCacheKey(entry.cache_type, entry.identifier,
                                        EntryContext(entry))
            IN SetResult(st, key, entry.value, eff,
                         DetermineTTL(key, eff, <<>>), store_err)

RECURSIVE WarmLoop(_, _, _, _, _)
\* the loop from entry i on; errs are the entries whose setex fails
WarmLoop(cache_entries, strategy, errs, i, st) ==
  IF i > Len(cache_entries) THEN st
  ELSE WarmLoop(cache_entries, strategy, errs, i + 1,
                WarmStep(cache_entries[i], strategy, i \in errs, st))

WarmCache(cache_entries, strategy, conn_err, errs) ==
  \/ ConnectRaised("warm_cache", NoKey, conn_err)
  \/ /\ client \/ ~conn_err
     /\ client' = TRUE
     /\ LET st == WarmLoop(cache_entries, strategy, errs, 1,
                           [store |-> store, warm |-> warm_cache_keys,
                            fate |-> fate, count |-> 0])
        IN /\ store' = st.store
           /\ warm_cache_keys' = st.warm
           /\ fate' = st.fate
           /\ last' = [Outcome("warm_cache", NoKey) EXCEPT
                         !.ok = TRUE, !.strategy_arg = strategy,
                         !.report = [NoReport EXCEPT
                                       !.success_count = st.count,
                                       !.entries = cache_entries,
                                       !.errs = errs]]
     /\ UNCHANGED <<default_strategy, access_counts, metrics, probe>>

(***************************************************************************)
(* optimize_cache                                                          *)
(***************************************************************************)
\* `ttl < 1800`, `expire(key, 3600)`
HotTTLFloor == 1800

HotTTLExtended == 3600

\* variant of RarelyAccessed that also takes the keys read twice
RarelyAccessedWide ==
  {k \in DOMAIN access_counts : access_counts[k] <= ColdThreshold}

RarelyAccessed ==
  {k \in DOMAIN access_counts : access_counts[k] < ColdThreshold}

FrequentlyAccessed ==
  {k \in DOMAIN access_counts : access_counts[k] > HotThreshold}

\* client.ttl(key): the remaining seconds, -2 for a key the store lacks
StoreTTL(key) == IF key \in DOMAIN store THEN store[key].ttl ELSE -2

\* variant of Extendable that extends every frequently accessed key
ExtendableAll == {k \in FrequentlyAccessed : StoreTTL(k) > 0}

\* the frequently accessed keys whose TTL the pass extends
Extendable ==
  {k \in FrequentlyAccessed : StoreTTL(k) > 0 /\ StoreTTL(k) < HotTTLFloor}

\* fail_at: the store call that fails, "delete" (the eviction, if there is
\* one) or "extend" (the first ttl or expire call, if there is one); a
\* failure ends the pass and is recorded in the report
OptimizeCache(conn_err, fail_at) ==
  LET rarely == RarelyAccessed
      evicted == Cardinality(rarely \cap DOMAIN store)
      deleteFails == fail_at = "delete" /\ rarely # {}
      extendFails == fail_at = "extend" /\ FrequentlyAccessed # {}
      report == [NoReport EXCEPT !.keys_analyzed = Cardinality(DOMAIN access_counts)]
      kept == Drop(store, rarely)
  IN \/ ConnectRaised("optimize_cache", NoKey, conn_err)
     \/ /\ client \/ ~conn_err
        /\ client' = TRUE
        /\ IF deleteFails
             THEN /\ last' = [Outcome("optimize_cache", NoKey) EXCEPT
                                !.store_error = TRUE,
                                !.report = [report EXCEPT !.error = TRUE]]
                  /\ UNCHANGED <<store, access_counts, warm_cache_keys, fate>>
             ELSE /\ access_counts' = Drop(access_counts, rarely)
                  /\ warm_cache_keys' = warm_cache_keys \ rarely
                  /\ fate' = [k \in DOMAIN fate |->
                                IF k \in rarely \cap DOMAIN store
                                  THEN "evicted" ELSE fate[k]]
                  /\ IF extendFails
                       THEN /\ store' = kept
                            /\ last' = [Outcome("optimize_cache", NoKey) EXCEPT
                                          !.store_error = TRUE,
                                          !.report = [report EXCEPT
                                                        !.keys_evicted = evicted,
                                                        !.error = TRUE]]
                       ELSE /\ store' =
                                 [k \in DOMAIN kept |->
                                    IF k \in Extendable
                                      THEN [kept[k] EXCEPT !.ttl = HotTTLExtended]
                                      ELSE kept[k]]
                            /\ last' = [Outcome("optimize_cache", NoKey) EXCEPT
                                          !.ok = TRUE,
                                          !.report = [report EXCEPT
                                                        !.keys_evicted = evicted]]
        /\ UNCHANGED <<default_strategy, metrics, probe>>

(***************************************************************************)
(* clear_all                                                               *)
(***************************************************************************)
\* variant of ScanAll that scans the whole store
ScanAllStore == DOMAIN store

\* the keys `scan_iter(f"{KEY_PREFIX}:*")` yields
ScanAll == {k \in DOMAIN store : IsPrefix(KEY_PREFIX \o <<":">>, k)}

\* variant of ClearAll that leaves the warm set as it is
ClearAllKeepsWarm(conn_err, store_err) ==
  LET keys == ScanAll
  IN \/ ConnectRaised("clear_all", NoKey, conn_err)
     \/ /\ client \/ ~conn_err
        /\ client' = TRUE
        /\ IF store_err
             THEN /\ last' = [Outcome("clear_all", NoKey) EXCEPT
                                !.store_error = TRUE]
                  /\ UNCHANGED <<store, warm_cache_keys, access_counts, fate>>
             ELSE /\ store' = Drop(store, keys)
                  /\ UNCHANGED warm_cache_keys
                  /\ access_counts' = <<>>
                  /\ fate' = [k \in DOMAIN fate |->
                                IF k \in keys THEN "cleared" ELSE fate[k]]
                  /\ last' = [Outcome("clear_all", NoKey) EXCEPT
                                !.deleted = Cardinality(keys), !.ok = TRUE]
        /\ UNCHANGED <<default_strategy, metrics, probe>>

\* deleted records len(keys), which clear_all logs; it returns True or False
ClearAll(conn_err, store_err) ==
  LET keys == ScanAll
  IN \/ ConnectRaised("clear_all", NoKey, conn_err)
     \/ /\ client \/ ~conn_err
        /\ client' = TRUE
        /\ IF store_err
             THEN /\ last' = [Outcome("clear_all", NoKey) EXCEPT
                                !.store_error = TRUE]
                  /\ UNCHANGED <<store, warm_cache_keys, access_counts, fate>>
             ELSE /\ store' = Drop(store, keys)
                  /\ warm_cache_keys' = {}
                  /\ access_counts' = <<>>
                  /\ fate' = [k \in DOMAIN fate |->
                                IF k \in keys THEN "cleared" ELSE fate[k]]
                  /\ last' = [Outcome("clear_all", NoKey) EXCEPT
                                !.deleted = Cardinality(keys), !.ok = TRUE]
        /\ UNCHANGED <<default_strategy, metrics, probe>>

(***************************************************************************)
(* get_metrics / reset_metrics                                             *)
(***************************************************************************)
\* variant of GetMetrics that zeroes the footprint when the query fails
GetMetricsZeroOnError(used_memory, store_err) ==
  /\ IF client /\ ~store_err
       THEN /\ metrics' = [metrics EXCEPT !.cache_size_bytes = used_memory]
            /\ last' = [Outcome("get_metrics", NoKey) EXCEPT
                          !.ok = TRUE,
                          !.report = [NoReport EXCEPT !.used_memory = used_memory]]
       ELSE /\ metrics' = [metrics EXCEPT !.cache_size_bytes = 0]
            /\ last' = [Outcome("get_metrics", NoKey) EXCEPT
                          !.ok = TRUE, !.store_error = client]
  /\ UNCHANGED <<client, default_strategy, store, access_counts,
                 warm_cache_keys, fate, probe>>

\* `if self._client:` query info("memory") and store used_memory; a failure
\* of the query is logged; the metrics are returned either way. The call
\* does not connect
GetMetrics(used_memory, store_err) ==
  /\ IF client /\ ~store_err
       THEN /\ metrics' = [metrics EXCEPT !.cache_size_bytes = used_memory]
            /\ last' = [Outcome("get_metrics", NoKey) EXCEPT
                          !.ok = TRUE,
                          !.report = [NoReport EXCEPT !.used_memory = used_memory]]
       ELSE /\ UNCHANGED metrics
            /\ last' = [Outcome("get_metrics", NoKey) EXCEPT
                          !.ok = TRUE, !.store_error = client]
  /\ UNCHANGED <<client, default_strategy, store, access_counts,
                 warm_cache_keys, fate, probe>>

\* self._metrics = CacheMetrics()
ResetMetrics ==
  /\ metrics' = NewMetrics
  /\ last' = Outcome("reset_metrics", NoKey)
  /\ UNCHANGED <<client, default_strategy, store, access_counts,
                 warm_cache_keys, fate, probe>>

(***************************************************************************)
(* cache_ai_response                                                       *)
(***************************************************************************)
\* the md5 of f"{func.__name__}:{str(args)}:{str(sorted(kwargs.items()))}",
\* cut to 16 digits: one colon-free token, distinct for distinct calls
IdentifierHash(call) ==
  <<ToString(<<call.name, call.args, SortedItems(call.kwargs)>>)>>

\* variant of CachedUsable that tests the truthiness of the cached value
CachedTruthy(cached) == cached # PyNone /\ cached.body # <<>>

\* `if cached is not None:`
CachedUsable(cached) == cached # PyNone

\* wrapper(*args, **kwargs) of a function decorated with config: cache.get,
\* then, unless a value was cached, the function and cache.set. Func is the
\* decorated function, get_err and set_err the store failures of the two
\* cache calls; pre records which of them failed
Wrapper(config, call, conn_err, get_err, set_err) ==
  LET key == GenerateCacheKey(config.cache_type, IdentifierHash(call), <<>>)
      found == ~get_err /\ key \in DOMAIN store
      cached == IF found /\ JsonParsable(store[key].value)
                  THEN JsonLoads(store[key].value)
                  ELSE PyNone
      result == call.result
      strategy == EffectiveStrategy(config.strategy)
      ttl == DetermineTTL(key, strategy, config.ttl_override)
      st == SetResult([store |-> store, warm |-> warm_cache_keys,
                       fate |-> fate, count |-> 0],
                      key, result, strategy, ttl, set_err)
      out == [Outcome("wrapper", key) EXCEPT
                !.strategy_arg = config.strategy,
                !.ttl_override = config.ttl_override,
                !.pre = IF get_err THEN {"get_failed"} ELSE {}]
  IN \/ ConnectRaised("wrapper", key, conn_err)
     \/ /\ client \/ ~conn_err
        /\ client' = TRUE
        /\ metrics' = IF get_err THEN metrics
                      ELSE IF found THEN [metrics EXCEPT !.hits = @ + 1]
                           ELSE [metrics EXCEPT !.misses = @ + 1]
        /\ access_counts' = IF found
                              THEN Put(access_counts, key, AccessCount(key) + 1)
                              ELSE access_counts
        /\ IF CachedUsable(cached)
             THEN /\ UNCHANGED <<store, warm_cache_keys, fate>>
                  /\ last' = [out EXCEPT !.value = cached, !.ok = TRUE]
             ELSE /\ store' = st.store
                  /\ warm_cache_keys' = st.warm
                  /\ fate' = st.fate
                  /\ last' = [out EXCEPT
                                !.value = result, !.arg = result, !.ok = TRUE,
                                !.strategy = strategy, !.ttl = ttl,
                                !.pre = @ \cup (IF st.count = 0
                                                  THEN {"set_failed"} ELSE {}),
                                !.report = [NoReport EXCEPT
                                              !.executed = 1, !.set_calls = 1]]
        /\ UNCHANGED <<default_strategy, probe>>

(***************************************************************************)
(* The backing store: expiry of an entry, loss of the whole store          *)
(***************************************************************************)
\* the TTL of an entry elapses; the cache is not told
Expire(key) ==
  /\ key \in DOMAIN store
  /\ store' = Drop(store, {key})
  /\ fate' = Put(fate, key, "expired")
  /\ last' = Outcome("expire", key)
  /\ UNCHANGED <<client, default_strategy, access_counts, warm_cache_keys,
                 metrics, probe>>

\* the store loses every entry (restart, flush)
StoreLoss ==
  /\ DOMAIN store # {}
  /\ store' = <<>>
  /\ fate' = [k \in DOMAIN fate |->
                IF k \in DOMAIN store THEN "lost" ELSE fate[k]]
  /\ last' = Outcome("store_loss", NoKey)
  /\ UNCHANGED <<client, default_strategy, access_counts, warm_cache_keys,
                 metrics, probe>>

\* the text stored under a key of the cache is replaced by one that is not
\* JSON (a writer that does not go through set, a damaged entry)
Corrupt(key) ==
  /\ key \in DOMAIN store
  /\ JsonParsable(store[key].value)
  /\ store' = [store EXCEPT ![key].value = [kind |-> "garbage", body |-> <<>>]]
  /\ fate' = Put(fate, key, "corrupted")
  /\ last' = Outcome("corrupt", key)
  /\ UNCHANGED <<client, default_strategy, access_counts, warm_cache_keys,
                 metrics, probe>>

\* another user of the same Redis writes a key outside the cache's namespace
ForeignWrite(key) ==
  /\ ~IsPrefix(KEY_PREFIX \o <<":">>, key)
  /\ key \notin DOMAIN store
  /\ store' = Put(store, key, [value |-> [kind |-> "foreign", body |-> <<>>],
                               ttl |-> 0])
  /\ last' = Outcome("foreign_write", key)
  /\ UNCHANGED <<client, default_strategy, access_counts, warm_cache_keys,
                 metrics, fate, probe>>

(***************************************************************************)
(* Inputs of the model                                                     *)
(***************************************************************************)
Triple(cache_type, identifier, context) ==
  [cache_type |-> cache_type, identifier |-> identifier, context |-> context]

CtxAB == << <<"form_type", "test">>, <<"user_id", "123">> >>

CtxBA == << <<"user_id", "123">>, <<"form_type", "test">> >>

VDict == PyValue("dict", "str", <<"value", "Postgres">>)

VIntDict == PyValue("dict", "int", <<"1", "Postgres">>)

VList == PyValue("list", "-", <<"a", "b">>)

VTuple == PyValue("tuple", "-", <<"a", "b">>)

VObject == PyValue("object", "-", <<"x">>)

\* the bounds of the single-key specification
HotMaxHits == 12

HotMaxMisses == 1

HotMaxEvictions == 1

HotTriples == {Triple(<<"suggestion">>, <<"database">>, <<>>)}

HotValues == {VDict}

HotStrategies == CacheStrategy \cup {NoStrategy}

HotOverrides == {<<>>, <<7200>>}

\* connecting can only fail when the operation has to connect
ConnErrs == IF client THEN {FALSE} ELSE BOOLEAN

(***************************************************************************)
(* SpecHot: one key, every strategy, enough hits to make the key hot       *)
(***************************************************************************)
InitHot == CacheInit({MODERATE, AGGRESSIVE}) /\ probe = NoProbe

HotConnect == \E conn_err \in ConnErrs : Connect(conn_err)

HotGet ==
  \E t \in HotTriples, conn_err \in ConnErrs, store_err \in BOOLEAN :
    /\ metrics.hits < HotMaxHits
    /\ metrics.misses < HotMaxMisses
    /\ Get(t, conn_err, store_err)

HotSet ==
  \E t \in HotTriples, value \in HotValues, strategy \in HotStrategies,
     ttl_override \in HotOverrides, conn_err \in ConnErrs, store_err \in BOOLEAN :
    Set(t, value, strategy, ttl_override, conn_err, store_err)

HotInvalidate ==
  \E t \in HotTriples, byType \in BOOLEAN, conn_err \in ConnErrs,
     store_err \in BOOLEAN :
    /\ metrics.evictions < HotMaxEvictions
    /\ Invalidate(t.cache_type, IF byType THEN <<>> ELSE t.identifier,
                  t.context, conn_err, store_err)

HotExpire == \E t \in HotTriples : Expire(KeyOf(t))

NextHot ==
  \/ HotConnect
  \/ HotGet
  \/ HotSet
  \/ HotInvalidate
  \/ HotExpire
  \/ StoreLoss

SpecHot == InitHot /\ [][NextHot]_vars

(***************************************************************************)
(* Spec: two keys of two categories                                        *)
(***************************************************************************)
\* the hits, misses and evictions counted in one behaviour
MaxEvents == 2

Events == metrics.hits + metrics.misses + metrics.evictions

Triples ==
  {Triple(<<"suggestion">>, <<"field1">>, <<>>),
   Triple(<<"validation">>, <<"database">>, CtxAB)}

Values == {VDict, VObject}

Strategies == {NoStrategy, AGGRESSIVE}

Init == CacheInit({MODERATE}) /\ probe = NoProbe

DoConnect == \E conn_err \in ConnErrs : Connect(conn_err)

DoGet ==
  \E t \in Triples, conn_err \in ConnErrs, store_err \in BOOLEAN :
    /\ Events < MaxEvents
    /\ Get(t, conn_err, store_err)

DoSet ==
  \E t \in Triples, value \in Values, strategy \in Strategies,
     conn_err \in ConnErrs, store_err \in BOOLEAN :
    Set(t, value, strategy, <<>>, conn_err, store_err)

DoInvalidate ==
  \E t \in Triples, byType \in BOOLEAN, conn_err \in ConnErrs,
     store_err \in BOOLEAN :
    /\ Events < MaxEvents
    /\ Invalidate(t.cache_type, IF byType THEN <<>> ELSE t.identifier,
                  t.context, conn_err, store_err)

DoExpire == \E t \in Triples : Expire(KeyOf(t))

Next ==
  \/ DoConnect
  \/ Disconnect
  \/ DoGet
  \/ DoSet
  \/ DoInvalidate
  \/ DoExpire
  \/ StoreLoss

Spec == Init /\ [][Next]_vars

(***************************************************************************)
(* SpecValues: values of every kind set and read back, with and without a  *)
(* context, the context entries in either order                            *)
(***************************************************************************)
ValMaxEvents == 2

ValTriples ==
  {Triple(<<"suggestion">>, <<"database">>, <<>>),
   Triple(<<"suggestion">>, <<"database">>, CtxAB),
   Triple(<<"suggestion">>, <<"database">>, CtxBA)}

ValValues == {VDict, VIntDict, VList, VTuple, PyNone, VObject}

InitValues == CacheInit({MODERATE}) /\ probe = NoProbe

ValGet ==
  \E t \in ValTriples, conn_err \in ConnErrs, store_err \in BOOLEAN :
    /\ Events < ValMaxEvents
    /\ Get(t, conn_err, store_err)

ValSet ==
  \E t \in ValTriples, value \in ValValues, conn_err \in ConnErrs,
     store_err \in BOOLEAN :
    Set(t, value, AGGRESSIVE, <<>>, conn_err, store_err)

ValExpire == \E t \in ValTriples : Expire(KeyOf(t))

ValCorrupt == \E t \in ValTriples : Corrupt(KeyOf(t))

NextValues ==
  \/ ValGet
  \/ ValSet
  \/ ValExpire
  \/ ValCorrupt

SpecValues == InitValues /\ [][NextValues]_vars

(***************************************************************************)
(* SpecKey: the key builder applied to two triples                         *)
(***************************************************************************)
CtxA == << <<"form_type", "test">> >>

Item1 == <<"environment", "production">>

Item2 == <<"form_type", "test">>

Item3 == <<"user_id", "123">>

KeyContexts ==
  {<<>>, CtxA, CtxAB, CtxBA,
   <<Item1, Item2, Item3>>, <<Item1, Item3, Item2>>, <<Item2, Item1, Item3>>,
   <<Item2, Item3, Item1>>, <<Item3, Item1, Item2>>, <<Item3, Item2, Item1>>}

KeyCategories ==
  {<<"suggestion">>, <<"validation">>, <<"suggestion", ":", "field1">>}

KeyIdentifiers ==
  {<<"field1">>, <<"database">>, <<"field1", ":", "database">>}

KeyTriples ==
  {Triple(c, i, x) : c \in KeyCategories, i \in KeyIdentifiers, x \in KeyContexts}

InitKey ==
  /\ CacheInit({MODERATE})
  /\ probe \in {[phase |-> "input", a |-> a, b |-> b, ka |-> <<>>, kb |-> <<>>] :
                  a \in KeyTriples, b \in KeyTriples}

\* _generate_cache_key called for both triples
BuildKeys ==
  /\ probe.phase = "input"
  /\ probe' = [probe EXCEPT !.phase = "built", !.ka = KeyOf(probe.a),
                            !.kb = KeyOf(probe.b)]
  /\ UNCHANGED cacheVars

NextKey == BuildKeys

SpecKey == InitKey /\ [][NextKey]_vars

(***************************************************************************)
(* SpecOverride: one key set under every strategy, with no override, with  *)
(* the override 0 and with the override 7200                               *)
(***************************************************************************)
OvMaxEvents == 2

OvOverrides == {<<>>, <<0>>, <<7200>>}

\* a strategy argument that is not a member of CacheStrategy
BogusStrategy == "bogus"

OvStrategies == HotStrategies \cup {BogusStrategy}

InitOverride == CacheInit({MODERATE}) /\ probe = NoProbe

OvGet ==
  \E t \in HotTriples, conn_err \in ConnErrs, store_err \in BOOLEAN :
    /\ Events < OvMaxEvents
    /\ Get(t, conn_err, store_err)

OvSet ==
  \E t \in HotTriples, value \in Values, strategy \in OvStrategies,
     ttl_override \in OvOverrides, conn_err \in ConnErrs,
     store_err \in BOOLEAN :
    Set(t, value, strategy, ttl_override, conn_err, store_err)

OvExpire == \E t \in HotTriples : Expire(KeyOf(t))

NextOverride ==
  \/ OvGet
  \/ OvSet
  \/ OvExpire

SpecOverride == InitOverride /\ [][NextOverride]_vars

(***************************************************************************)
(* SpecTypes: four keys of three categories, one category a prefix of      *)
(* another, next to a key of another user of the store                     *)
(***************************************************************************)
TypeMaxEvents == 1

TypeTriples ==
  {Triple(<<"suggestion">>, <<"field1">>, <<>>),
   Triple(<<"suggestion">>, <<"database">>, CtxAB),
   Triple(<<"suggestion", ":", "field1">>, <<"database">>, <<>>),
   Triple(<<"validation">>, <<"database">>, <<>>)}

TypeCategories == {t.cache_type : t \in TypeTriples}

ForeignKeys == {<<"session", ":", "abc">>}

InitTypes == CacheInit({MODERATE}) /\ probe = NoProbe

TypeGet ==
  \E t \in TypeTriples, conn_err \in ConnErrs :
    /\ Events < TypeMaxEvents
    /\ Get(t, conn_err, FALSE)

TypeSet ==
  \E t \in TypeTriples, conn_err \in ConnErrs :
    Set(t, VDict, AGGRESSIVE, <<>>, conn_err, FALSE)

TypeInvalidate ==
  \E t \in TypeTriples, byType \in BOOLEAN, conn_err \in ConnErrs :
    /\ Events < TypeMaxEvents
    /\ Invalidate(t.cache_type, IF byType THEN <<>> ELSE t.identifier,
                  t.context, conn_err, FALSE)

TypeClearAll ==
  \E conn_err \in ConnErrs, store_err \in BOOLEAN : ClearAll(conn_err, store_err)

TypeForeignWrite == \E key \in ForeignKeys : ForeignWrite(key)

TypeExpire == \E t \in TypeTriples : Expire(KeyOf(t))

NextTypes ==
  \/ TypeGet
  \/ TypeSet
  \/ TypeInvalidate
  \/ TypeClearAll
  \/ TypeForeignWrite
  \/ TypeExpire

SpecTypes == InitTypes /\ [][NextTypes]_vars

(***************************************************************************)
(* SpecWarm: batches of well-formed and malformed entries                  *)
(***************************************************************************)
WarmMaxLen == 2

VDefault1 == PyValue("dict", "str", <<"value", "default1">>)

VDefault2 == PyValue("dict", "str", <<"value", "default2">>)

\* an entry without context, an entry with a context, an entry whose value
\* json cannot encode and an entry without identifier
WarmEntries ==
  {[cache_type |-> <<"suggestion">>, identifier |-> <<"field1">>,
    value |-> VDefault1],
   [cache_type |-> <<"suggestion">>, identifier |-> <<"field2">>,
    value |-> VDefault2, context |-> CtxA],
   [cache_type |-> <<"suggestion">>, identifier |-> <<"field2">>,
    value |-> VObject, context |-> CtxA],
   [cache_type |-> <<"suggestion">>, value |-> VDefault1]}

WarmBatches ==
  UNION {[1..n -> WarmEntries] : n \in 1..WarmMaxLen}

WarmTriples ==
  {Triple(<<"suggestion">>, <<"field1">>, <<>>),
   Triple(<<"suggestion">>, <<"field2">>, CtxA)}

InitWarm == CacheInit({MODERATE}) /\ probe = NoProbe

DoWarmCache ==
  \E cache_entries \in WarmBatches, conn_err \in ConnErrs :
    \E errs \in {{}} \cup {{i} : i \in 1..Len(cache_entries)} :
      WarmCache(cache_entries, AGGRESSIVE, conn_err, errs)

WarmExpire == \E t \in WarmTriples : Expire(KeyOf(t))

NextWarm ==
  \/ DoWarmCache
  \/ WarmExpire

SpecWarm == InitWarm /\ [][NextWarm]_vars

(***************************************************************************)
(* SpecOptimize: a key read once or twice next to a key read often enough  *)
(* to be frequently accessed, written with TTLs around the 1800 s floor    *)
(***************************************************************************)
OptMaxCold == 2

OptMaxHot == 11

OptMaxGets == 12

OptCold == Triple(<<"suggestion">>, <<"field1">>, <<>>)

OptHot == Triple(<<"suggestion">>, <<"database">>, <<>>)

OptTriples == {OptCold, OptHot}

OptOverrides == {<<600>>, <<1799>>, <<1800>>}

InitOptimize == CacheInit({MODERATE}) /\ probe = NoProbe

OptGet ==
  \E t \in OptTriples, conn_err \in ConnErrs :
    /\ metrics.hits + metrics.misses < OptMaxGets
    /\ AccessCount(KeyOf(t)) < (IF t = OptCold THEN OptMaxCold ELSE OptMaxHot)
    /\ Get(t, conn_err, FALSE)

OptSet ==
  \E t \in OptTriples, ttl_override \in OptOverrides, conn_err \in ConnErrs :
    Set(t, VDict, AGGRESSIVE, ttl_override, conn_err, FALSE)

DoOptimizeCache ==
  \E conn_err \in ConnErrs, fail_at \in {"none", "delete", "extend"} :
    OptimizeCache(conn_err, fail_at)

OptExpire == \E t \in OptTriples : Expire(KeyOf(t))

NextOptimize ==
  \/ OptGet
  \/ OptSet
  \/ DoOptimizeCache
  \/ OptExpire

SpecOptimize == InitOptimize /\ [][NextOptimize]_vars

(***************************************************************************)
(* SpecLife: every operation of the cache on one key                       *)
(***************************************************************************)
LifeMaxEvents == 2

LifeMaxCount == 2

LifeTriples == {Triple(<<"suggestion">>, <<"field1">>, <<>>)}

LifeEntries ==
  {[cache_type |-> <<"suggestion">>, identifier |-> <<"field1">>,
    value |-> VDefault1]}

LifeBatches == [1..1 -> LifeEntries]

UsedMemory == {1024, 2048}

InitLife == CacheInit({MODERATE, AGGRESSIVE}) /\ probe = NoProbe

LifeGet ==
  \E t \in LifeTriples, conn_err \in ConnErrs, store_err \in BOOLEAN :
    /\ Events < LifeMaxEvents
    /\ AccessCount(KeyOf(t)) < LifeMaxCount
    /\ Get(t, conn_err, store_err)

LifeSet ==
  \E t \in LifeTriples, value \in Values, strategy \in {NoStrategy, AGGRESSIVE},
     conn_err \in ConnErrs, store_err \in BOOLEAN :
    Set(t, value, strategy, <<>>, conn_err, store_err)

LifeInvalidate ==
  \E t \in LifeTriples, byType \in BOOLEAN, conn_err \in ConnErrs,
     store_err \in BOOLEAN :
    /\ Events < LifeMaxEvents
    /\ Invalidate(t.cache_type, IF byType THEN <<>> ELSE t.identifier,
                  t.context, conn_err, store_err)

LifeWarmCache ==
  \E cache_entries \in LifeBatches, strategy \in {AGGRESSIVE, MODERATE},
     conn_err \in ConnErrs, errs \in {{}, {1}} :
    WarmCache(cache_entries, strategy, conn_err, errs)

LifeOptimizeCache ==
  \E conn_err \in ConnErrs, fail_at \in {"none", "delete", "extend"} :
    OptimizeCache(conn_err, fail_at)

LifeClearAll ==
  \E conn_err \in ConnErrs, store_err \in BOOLEAN : ClearAll(conn_err, store_err)

LifeGetMetrics ==
  \E used_memory \in UsedMemory, store_err \in BOOLEAN :
    GetMetrics(used_memory, store_err)

LifeExpire == \E t \in LifeTriples : Expire(KeyOf(t))

NextLife ==
  \/ LifeGet
  \/ LifeSet
  \/ LifeInvalidate
  \/ LifeWarmCache
  \/ LifeOptimizeCache
  \/ LifeClearAll
  \/ LifeGetMetrics
  \/ ResetMetrics
  \/ Disconnect
  \/ LifeExpire

SpecLife == InitLife /\ [][NextLife]_vars

(***************************************************************************)
(* SpecWrap: functions decorated with cache_ai_response, called with the   *)
(* same and with different arguments                                       *)
(***************************************************************************)
WrapMaxEvents == 1

VEmptyList == PyValue("list", "-", <<>>)

\* the decorator arguments of two decorated functions
WrapConfigs ==
  {[cache_type |-> <<"suggestion">>, strategy |-> MODERATE, ttl_override |-> <<>>],
   [cache_type |-> <<"validation">>, strategy |-> AGGRESSIVE,
    ttl_override |-> <<7200>>]}

\* calls and what the decorated function returns for them: a dict, an empty
\* list (falsy, not None) and None; the keyword arguments in either order
WrapCalls ==
  {[name |-> "suggest", args |-> <<"field1">>, kwargs |-> CtxAB, result |-> VDict],
   [name |-> "suggest", args |-> <<"field1">>, kwargs |-> CtxBA, result |-> VDict],
   [name |-> "suggest", args |-> <<"field2">>, kwargs |-> <<>>,
    result |-> VEmptyList],
   [name |-> "suggest", args |-> <<"field3">>, kwargs |-> <<>>, result |-> PyNone]}

InitWrap == CacheInit({MODERATE}) /\ probe = NoProbe

DoWrapper ==
  \E config \in WrapConfigs, call \in WrapCalls, conn_err \in ConnErrs,
     get_err \in BOOLEAN, set_err \in BOOLEAN :
    /\ Events < WrapMaxEvents
    /\ Wrapper(config, call, conn_err, get_err, set_err)

WrapExpire ==
  \E config \in WrapConfigs, call \in WrapCalls :
    Expire(GenerateCacheKey(config.cache_type, IdentifierHash(call), <<>>))

NextWrap ==
  \/ DoWrapper
  \/ WrapExpire

SpecWrap == InitWrap /\ [][NextWrap]_vars

(***************************************************************************)
(* Concurrent calls. The operations are coroutines of one event loop: a    *)
(* call runs alone from one await to the next, and other calls run while   *)
(* it waits for the store. probe holds the calls in flight (calls), and a  *)
(* history of the run: started, the calls begun; created, the clients      *)
(* made since the last disconnect; completed, the gets that ended without  *)
(* a store error; returned, the gets that returned a value; applied, per   *)
(* key the text of the last set the store applied.                         *)
(***************************************************************************)
\* a call slot with no call in it
IdleCall == [op |-> "-", pc |-> "idle", key |-> NoKey, reply |-> <<>>,
             data |-> <<>>]

RaceProbe(ids) ==
  [calls |-> [id \in ids |-> IdleCall], started |-> 0, created |-> 0,
   completed |-> 0, returned |-> 0, applied |-> <<>>]

CallOf(id) == probe.calls[id]

\* `if not self._client: await self.connect()` at the head of an operation:
\* with a client the call goes on to its first store round trip ("sent");
\* without one connect awaits redis.from_url, and the call either goes on
\* in the same step with the new client (the await did not suspend) or
\* waits ("connecting") while other calls run
CallStart(id, op, key, data, suspends) ==
  LET call == [IdleCall EXCEPT !.op = op, !.key = key, !.data = data]
  IN /\ CallOf(id).pc = "idle"
     /\ IF client \/ suspends
          THEN /\ probe' = [probe EXCEPT
                              !.calls[id] =
                                 [call EXCEPT !.pc = IF client THEN "sent"
                                                     ELSE "connecting"],
                              !.started = @ + 1]
               /\ UNCHANGED client
          ELSE /\ probe' = [probe EXCEPT
                              !.calls[id] = [call EXCEPT !.pc = "sent"],
                              !.started = @ + 1,
                              !.created = @ + 1]
               /\ client' = TRUE
     /\ UNCHANGED <<default_strategy, store, access_counts, warm_cache_keys,
                    metrics, last, fate>>

\* redis.from_url answers a call that waits in connect: the client it made
\* is assigned to self._client, or the exception leaves the operation
ConnectFinish(id, conn_err) ==
  /\ CallOf(id).pc = "connecting"
  /\ IF conn_err
       THEN /\ probe' = [probe EXCEPT !.calls[id] = IdleCall]
            /\ last' = [Outcome(CallOf(id).op, CallOf(id).key) EXCEPT
                          !.raised = TRUE]
            /\ UNCHANGED client
       ELSE /\ probe' = [probe EXCEPT
                           !.calls[id] = IF CallOf(id).op = "connect"
                                           THEN IdleCall
                                           ELSE [@ EXCEPT !.pc = "sent"],
                           !.created = @ + 1]
            /\ client' = TRUE
            /\ last' = IF CallOf(id).op = "connect"
                         THEN Outcome("connect", NoKey) ELSE last
  /\ UNCHANGED <<default_strategy, store, access_counts, warm_cache_keys,
                 metrics, fate>>

\* connect() called by itself (or by `async with`): with a client it does
\* nothing; without one it awaits redis.from_url like any operation
ConnectCall(id, suspends) ==
  IF client
    THEN /\ CallOf(id).pc = "idle"
         /\ last' = Outcome("connect", NoKey)
         /\ UNCHANGED <<client, default_strategy, store, access_counts,
                        warm_cache_keys, metrics, fate, probe>>
    ELSE IF suspends
           THEN CallStart(id, "connect", NoKey, <<>>, TRUE)
           ELSE /\ CallOf(id).pc = "idle"
                /\ client' = TRUE
                /\ probe' = [probe EXCEPT !.started = @ + 1,
                                          !.created = @ + 1]
                /\ last' = Outcome("connect", NoKey)
                /\ UNCHANGED <<default_strategy, store, access_counts,
                               warm_cache_keys, metrics, fate>>

\* disconnect(): close the client and forget it
DisconnectCall ==
  /\ client
  /\ client' = FALSE
  /\ probe' = [probe EXCEPT !.created = 0]
  /\ last' = Outcome("disconnect", NoKey)
  /\ UNCHANGED <<default_strategy, store, access_counts, warm_cache_keys,
                 metrics, fate>>

GetStart(id, t, suspends) == CallStart(id, "get", KeyOf(t), <<>>, suspends)

\* the store serves `await self._client.get(key)`: the reply is the text
\* stored at this moment, nothing for a key it lacks, or a failure
GetRead(id, store_err) ==
  /\ CallOf(id).op = "get" /\ CallOf(id).pc = "sent"
  /\ probe' = [probe EXCEPT
                 !.calls[id].pc = "replied",
                 !.calls[id].reply =
                    [err |-> store_err,
                     value |-> IF ~store_err /\ CallOf(id).key \in DOMAIN store
                                 THEN <<store[CallOf(id).key].value>>
                                 ELSE <<>>]]
  /\ UNCHANGED <<client, default_strategy, store, access_counts,
                 warm_cache_keys, metrics, last, fate>>

\* what the get that resumes returns: json.loads of the reply, or None
GetReturns(reply) ==
  IF ~reply.err /\ reply.value # <<>> /\ JsonParsable(reply.value[1])
    THEN JsonLoads(reply.value[1])
    ELSE PyNone

\* variant of GetResume that counts a hit only when the entry is still
\* stored as the call resumes
GetResumeRechecks(id) ==
  LET key == CallOf(id).key
      reply == CallOf(id).reply
      hit == ~reply.err /\ reply.value # <<>>
      value == GetReturns(reply)
  IN /\ CallOf(id).op = "get" /\ CallOf(id).pc = "replied"
     /\ metrics' = IF reply.err THEN metrics
                   ELSE IF hit /\ key \in DOMAIN store
                          THEN [metrics EXCEPT !.hits = @ + 1]
                          ELSE [metrics EXCEPT !.misses = @ + 1]
     /\ access_counts' = IF hit /\ key \in DOMAIN store
                           THEN Put(access_counts, key, AccessCount(key) + 1)
                           ELSE access_counts
     /\ last' = [Outcome("get", key) EXCEPT
                   !.value = value,
                   !.ok = ~reply.err /\ (hit => JsonParsable(reply.value[1])),
                   !.store_error = reply.err]
     /\ probe' = [probe EXCEPT
                    !.calls[id] = IdleCall,
                    !.completed = IF reply.err THEN @ ELSE @ + 1,
                    !.returned = IF value # PyNone THEN @ + 1 ELSE @]
     /\ UNCHANGED <<client, default_strategy, store, warm_cache_keys, fate>>

\* the get resumes with the reply and runs to its return without another
\* await: `if value:` counts the hit and the access, else the miss; a
\* failure of the round trip counts neither
GetResume(id) ==
  LET key == CallOf(id).key
      reply == CallOf(id).reply
      hit == ~reply.err /\ reply.value # <<>>
      value == GetReturns(reply)
  IN /\ CallOf(id).op = "get" /\ CallOf(id).pc = "replied"
     /\ metrics' = IF reply.err THEN metrics
                   ELSE IF hit THEN [metrics EXCEPT !.hits = @ + 1]
                        ELSE [metrics EXCEPT !.misses = @ + 1]
     /\ access_counts' = IF hit
                           THEN Put(access_counts, key, AccessCount(key) + 1)
                           ELSE access_counts
     /\ last' = [Outcome("get", key) EXCEPT
                   !.value = value,
                   !.ok = ~reply.err /\ (hit => JsonParsable(reply.value[1])),
                   !.store_error = reply.err]
     /\ probe' = [probe EXCEPT
                    !.calls[id] = IdleCall,
                    !.completed = IF reply.err THEN @ ELSE @ + 1,
                    !.returned = IF value # PyNone THEN @ + 1 ELSE @]
     /\ UNCHANGED <<client, default_strategy, store, warm_cache_keys, fate>>

\* set up to its store round trip: the key, the strategy and the TTL are
\* fixed before `await self._client.setex`; a value json.dumps rejects ends
\* the call at once. The call does not wait in connect
SetStart(id, t, value, strategy_arg) ==
  LET key == KeyOf(t)
      strategy == EffectiveStrategy(strategy_arg)
      data == [value |-> value, strategy |-> strategy,
               strategy_arg |-> strategy_arg,
               ttl |-> DetermineTTL(key, strategy, <<>>)]
  IN /\ strategy \in CacheStrategy
     /\ IF JsonSerializable(value)
          THEN /\ CallStart(id, "set", key, data, FALSE)
          ELSE /\ CallOf(id).pc = "idle"
               /\ client' = TRUE
               /\ probe' = [probe EXCEPT
                              !.started = @ + 1,
                              !.created = IF client THEN @ ELSE @ + 1]
               /\ last' = [Outcome("set", key) EXCEPT
                             !.arg = value, !.strategy_arg = strategy_arg,
                             !.strategy = strategy, !.ttl = data.ttl]
               /\ UNCHANGED <<default_strategy, store, access_counts,
                              warm_cache_keys, metrics, fate>>

\* variant of SetApply that keeps an entry the store already holds
SetApplyKeepsFirst(id, store_err) ==
  LET key == CallOf(id).key
      data == CallOf(id).data
      text == JsonDumps(data.value)
  IN /\ CallOf(id).op = "set" /\ CallOf(id).pc = "sent"
     /\ probe' = [probe EXCEPT
                    !.calls[id].pc = "replied",
                    !.calls[id].reply = [err |-> store_err, value |-> <<>>],
                    !.applied = IF store_err THEN @ ELSE Put(@, key, text)]
     /\ IF store_err
          THEN UNCHANGED <<store, fate>>
          ELSE /\ store' = IF key \in DOMAIN store THEN store
                           ELSE Put(store, key,
                                    [value |-> text, ttl |-> data.ttl])
               /\ fate' = Put(fate, key, "written")
     /\ UNCHANGED <<client, default_strategy, access_counts, warm_cache_keys,
                    metrics, last>>

\* the store serves `setex(key, ttl, serialized_value)`: the entry replaces
\* whatever the key held, or the round trip fails
SetApply(id, store_err) ==
  LET key == CallOf(id).key
      data == CallOf(id).data
      text == JsonDumps(data.value)
  IN /\ CallOf(id).op = "set" /\ CallOf(id).pc = "sent"
     /\ probe' = [probe EXCEPT
                    !.calls[id].pc = "replied",
                    !.calls[id].reply = [err |-> store_err, value |-> <<>>],
                    !.applied = IF store_err THEN @ ELSE Put(@, key, text)]
     /\ IF store_err
          THEN UNCHANGED <<store, fate>>
          ELSE /\ store' = Put(store, key, [value |-> text, ttl |-> data.ttl])
               /\ fate' = Put(fate, key, "written")
     /\ UNCHANGED <<client, default_strategy, access_counts, warm_cache_keys,
                    metrics, last>>

\* set resumes after setex: the warm set for an aggressive write, True; or
\* the except branch, False
SetResume(id) ==
  LET key == CallOf(id).key
      data == CallOf(id).data
      err == CallOf(id).reply.err
      out == [Outcome("set", key) EXCEPT
                !.arg = data.value, !.strategy_arg = data.strategy_arg,
                !.strategy = data.strategy, !.ttl = data.ttl]
  IN /\ CallOf(id).op = "set" /\ CallOf(id).pc = "replied"
     /\ warm_cache_keys' = IF ~err /\ data.strategy = AGGRESSIVE
                             THEN warm_cache_keys \cup {key}
                             ELSE warm_cache_keys
     /\ last' = [out EXCEPT !.ok = ~err, !.store_error = err]
     /\ probe' = [probe EXCEPT !.calls[id] = IdleCall]
     /\ UNCHANGED <<client, default_strategy, store, access_counts, metrics,
                    fate>>

\* optimize_cache returns its report
OptimizeReturn(id, report, err) ==
  /\ last' = [Outcome("optimize_cache", NoKey) EXCEPT
                !.ok = ~err, !.store_error = err,
                !.report = [report EXCEPT !.error = err]]
  /\ probe' = [probe EXCEPT !.calls[id] = IdleCall]

\* optimize_cache goes on after the eviction: the next key whose TTL it
\* queries, or the return when none is left
OptimizeNext(id, data) ==
  IF data.todo = {}
    THEN OptimizeReturn(id, data.report, FALSE)
    ELSE /\ probe' = [probe EXCEPT
                        !.calls[id] = [op |-> "optimize_cache", pc |-> "ttl",
                                       key |-> NoKey, reply |-> <<>>,
                                       data |-> data]]
         /\ UNCHANGED last

\* optimize_cache up to its first store round trip: the rarely and the
\* frequently accessed keys are taken from the counters as they are now.
\* The call does not wait in connect
OptimizeStart(id) ==
  LET data == [rarely |-> RarelyAccessed, todo |-> FrequentlyAccessed,
               report |-> [NoReport EXCEPT
                             !.keys_analyzed =
                                Cardinality(DOMAIN access_counts)]]
  IN /\ CallOf(id).pc = "idle"
     /\ client' = TRUE
     /\ IF data.rarely # {}
          THEN /\ probe' = [probe EXCEPT
                              !.calls[id] =
                                 [op |-> "optimize_cache", pc |-> "delete",
                                  key |-> NoKey, reply |-> <<>>,
                                  data |-> data],
                              !.started = @ + 1,
                              !.created = IF client THEN @ ELSE @ + 1]
               /\ UNCHANGED last
          ELSE /\ probe' = [probe EXCEPT
                              !.calls[id] =
                                 IF data.todo = {} THEN IdleCall
                                 ELSE [op |-> "optimize_cache", pc |-> "ttl",
                                       key |-> NoKey, reply |-> <<>>,
                                       data |-> data],
                              !.started = @ + 1,
                              !.created = IF client THEN @ ELSE @ + 1]
               /\ last' = IF data.todo = {}
                            THEN [Outcome("optimize_cache", NoKey) EXCEPT
                                    !.ok = TRUE, !.report = data.report]
                            ELSE last
     /\ UNCHANGED <<default_strategy, store, access_counts, warm_cache_keys,
                    metrics, fate>>

\* the store serves `delete(*rarely_accessed)` and answers with the number
\* of keys it removed
OptimizeDelete(id, store_err) ==
  LET rarely == CallOf(id).data.rarely
  IN /\ CallOf(id).op = "optimize_cache" /\ CallOf(id).pc = "delete"
     /\ probe' = [probe EXCEPT
                    !.calls[id].pc = "deleted",
                    !.calls[id].reply =
                       [err |-> store_err,
                        value |-> IF store_err THEN 0
                                  ELSE Cardinality(rarely \cap DOMAIN store)]]
     /\ IF store_err
          THEN UNCHANGED <<store, fate>>
          ELSE /\ store' = Drop(store, rarely)
               /\ fate' = [k \in DOMAIN fate |->
                             IF k \in rarely \cap DOMAIN store
                               THEN "evicted" ELSE fate[k]]
     /\ UNCHANGED <<client, default_strategy, access_counts, warm_cache_keys,
                    metrics, last>>

\* optimize_cache resumes after the delete: the report, the counters and
\* the warm set of the keys it took for rarely accessed at its start
OptimizeCleanup(id) ==
  LET data == CallOf(id).data
      reply == CallOf(id).reply
      report == [data.report EXCEPT !.keys_evicted = reply.value]
  IN /\ CallOf(id).op = "optimize_cache" /\ CallOf(id).pc = "deleted"
     /\ IF reply.err
          THEN /\ OptimizeReturn(id, data.report, TRUE)
               /\ UNCHANGED <<access_counts, warm_cache_keys>>
          ELSE /\ access_counts' = Drop(access_counts, data.rarely)
               /\ warm_cache_keys' = warm_cache_keys \ data.rarely
               /\ OptimizeNext(id, [data EXCEPT !.report = report])
     /\ UNCHANGED <<client, default_strategy, store, metrics, fate>>

\* the store serves `ttl(key)` for a frequently accessed key
OptimizeTTL(id, key, store_err) ==
  /\ CallOf(id).op = "optimize_cache" /\ CallOf(id).pc = "ttl"
  /\ key \in CallOf(id).data.todo
  /\ probe' = [probe EXCEPT
                 !.calls[id].pc = "ttl_replied",
                 !.calls[id].key = key,
                 !.calls[id].reply = [err |-> store_err,
                                      value |-> StoreTTL(key)]]
  /\ UNCHANGED <<client, default_strategy, store, access_counts,
                 warm_cache_keys, metrics, last, fate>>

\* optimize_cache resumes with the TTL: `if ttl > 0 and ttl < 1800` it asks
\* for the extension, else it goes on to the next key
OptimizeTTLResume(id) ==
  LET call == CallOf(id)
      rest == [call.data EXCEPT !.todo = @ \ {call.key}]
  IN /\ call.op = "optimize_cache" /\ call.pc = "ttl_replied"
     /\ IF call.reply.err
          THEN OptimizeReturn(id, call.data.report, TRUE)
          ELSE IF call.reply.value > 0 /\ call.reply.value < HotTTLFloor
                 THEN /\ probe' = [probe EXCEPT !.calls[id].pc = "expire"]
                      /\ UNCHANGED last
                 ELSE OptimizeNext(id, rest)
     /\ UNCHANGED <<client, default_strategy, store, access_counts,
                    warm_cache_keys, metrics, fate>>

\* the store serves `expire(key, 3600)`: the TTL of the entry the key holds
\* now, nothing for a key it lacks
OptimizeExpire(id, store_err) ==
  LET key == CallOf(id).key
  IN /\ CallOf(id).op = "optimize_cache" /\ CallOf(id).pc = "expire"
     /\ probe' = [probe EXCEPT
                    !.calls[id].pc = "expired",
                    !.calls[id].reply = [err |-> store_err, value |-> 0]]
     /\ store' = IF ~store_err /\ key \in DOMAIN store
                   THEN [store EXCEPT ![key].ttl = HotTTLExtended]
                   ELSE store
     /\ UNCHANGED <<client, default_strategy, access_counts, warm_cache_keys,
                    metrics, last, fate>>

\* optimize_cache resumes after the extension and goes on to the next key
OptimizeExpireResume(id) ==
  LET call == CallOf(id)
      rest == [call.data EXCEPT !.todo = @ \ {call.key}]
  IN /\ call.op = "optimize_cache" /\ call.pc = "expired"
     /\ IF call.reply.err
          THEN OptimizeReturn(id, call.data.report, TRUE)
          ELSE OptimizeNext(id, rest)
     /\ UNCHANGED <<client, default_strategy, store, access_counts,
                    warm_cache_keys, metrics, fate>>

(***************************************************************************)
(* SpecGets: concurrent gets of two keys, with sets, invalidations and     *)
(* expiry between their steps                                              *)
(***************************************************************************)
GetsCalls == 2

GetsMaxStarted == 3

GetsMaxEvictions == 1

GetsIds == 1..GetsCalls

GetsTriples ==
  {Triple(<<"suggestion">>, <<"field1">>, <<>>),
   Triple(<<"validation">>, <<"field2">>, <<>>)}

InitGets == CacheInit({MODERATE}) /\ probe = RaceProbe(GetsIds)

\* the connect of the first call does not suspend here: SpecConnect has the
\* calls that wait in connect
GetsStart ==
  \E id \in GetsIds, t \in GetsTriples :
    /\ probe.started < GetsMaxStarted
    /\ GetStart(id, t, FALSE)

GetsRead == \E id \in GetsIds, store_err \in BOOLEAN : GetRead(id, store_err)

GetsResume == \E id \in GetsIds : GetResume(id)

GetsSet ==
  \E t \in GetsTriples :
    /\ client
    /\ KeyOf(t) \notin DOMAIN store
    /\ Set(t, VDict, NoStrategy, <<>>, FALSE, FALSE)

GetsInvalidate ==
  \E t \in GetsTriples :
    /\ client
    /\ metrics.evictions < GetsMaxEvictions
    /\ KeyOf(t) \in DOMAIN store \cup DOMAIN access_counts
    /\ Invalidate(t.cache_type, t.identifier, t.context, FALSE, FALSE)

GetsExpire == \E t \in GetsTriples : Expire(KeyOf(t))

NextGets ==
  \/ GetsStart
  \/ GetsRead
  \/ GetsResume
  \/ GetsSet
  \/ GetsInvalidate
  \/ GetsExpire

SpecGets == InitGets /\ [][NextGets]_vars

(***************************************************************************)
(* SpecConnect: calls that start on a cache with or without a client,      *)
(* connect and disconnect                                                  *)
(***************************************************************************)
ConnCalls == 2

ConnMaxStarted == 3

ConnIds == 1..ConnCalls

ConnTriples == {Triple(<<"suggestion">>, <<"field1">>, <<>>)}

InitConnect == CacheInit({MODERATE}) /\ probe = RaceProbe(ConnIds)

ConnGetStart ==
  \E id \in ConnIds, t \in ConnTriples, suspends \in BOOLEAN :
    /\ probe.started < ConnMaxStarted
    /\ GetStart(id, t, suspends)

ConnConnect ==
  \E id \in ConnIds, suspends \in BOOLEAN :
    /\ probe.started < ConnMaxStarted
    /\ ConnectCall(id, suspends)

ConnConnectFinish ==
  \E id \in ConnIds, conn_err \in BOOLEAN : ConnectFinish(id, conn_err)

ConnRead == \E id \in ConnIds, store_err \in BOOLEAN : GetRead(id, store_err)

ConnResume == \E id \in ConnIds : GetResume(id)

ConnSet ==
  \E t \in ConnTriples :
    /\ client
    /\ KeyOf(t) \notin DOMAIN store
    /\ Set(t, VDict, NoStrategy, <<>>, FALSE, FALSE)

NextConnect ==
  \/ ConnGetStart
  \/ ConnConnect
  \/ ConnConnectFinish
  \/ ConnRead
  \/ ConnResume
  \/ ConnSet
  \/ DisconnectCall

SpecConnect == InitConnect /\ [][NextConnect]_vars

(***************************************************************************)
(* SpecRace: an optimize pass, a get and a set of one key under way at the *)
(* same time, each in its own slot, with gets of the key between the races *)
(***************************************************************************)
RaceMaxStarted == 4

RaceMaxHits == 11

OptSlot == 1

GetSlot == 2

SetSlot == 3

RaceTriples == {Triple(<<"suggestion">>, <<"field1">>, <<>>)}

RaceValues == {VDict, VDefault1}

RaceStrategies == {CONSERVATIVE, AGGRESSIVE}

InitRace == CacheInit({MODERATE}) /\ probe = RaceProbe({OptSlot, GetSlot, SetSlot})

Quiet == \A id \in DOMAIN probe.calls : CallOf(id).pc = "idle"

\* a get that runs from its start to its return while no other call is
\* under way
RaceQuietGet ==
  \E t \in RaceTriples :
    /\ Quiet
    /\ client
    /\ KeyOf(t) \in DOMAIN store
    /\ AccessCount(KeyOf(t)) < RaceMaxHits
    /\ Get(t, FALSE, FALSE)

RaceGetStart ==
  \E t \in RaceTriples :
    /\ probe.started < RaceMaxStarted
    /\ GetStart(GetSlot, t, FALSE)

RaceGetRead == \E store_err \in BOOLEAN : GetRead(GetSlot, store_err)

RaceGetResume == GetResume(GetSlot)

RaceSetStart ==
  \E t \in RaceTriples, value \in RaceValues, strategy \in RaceStrategies :
    /\ probe.started < RaceMaxStarted
    /\ SetStart(SetSlot, t, value, strategy)

RaceSetApply == \E store_err \in BOOLEAN : SetApply(SetSlot, store_err)

RaceSetResume == SetResume(SetSlot)

RaceOptimizeStart ==
  /\ probe.started < RaceMaxStarted
  /\ OptimizeStart(OptSlot)

RaceOptimizeDelete == \E store_err \in BOOLEAN : OptimizeDelete(OptSlot, store_err)

RaceOptimizeCleanup == OptimizeCleanup(OptSlot)

RaceOptimizeTTL ==
  \E t \in RaceTriples, store_err \in BOOLEAN :
    OptimizeTTL(OptSlot, KeyOf(t), store_err)

RaceOptimizeTTLResume == OptimizeTTLResume(OptSlot)

RaceOptimizeExpire == \E store_err \in BOOLEAN : OptimizeExpire(OptSlot, store_err)

RaceOptimizeExpireResume == OptimizeExpireResume(OptSlot)

NextRace ==
  \/ RaceQuietGet
  \/ RaceGetStart
  \/ RaceGetRead
  \/ RaceGetResume
  \/ RaceSetStart
  \/ RaceSetApply
  \/ RaceSetResume
  \/ RaceOptimizeStart
  \/ RaceOptimizeDelete
  \/ RaceOptimizeCleanup
  \/ RaceOptimizeTTL
  \/ RaceOptimizeTTLResume
  \/ RaceOptimizeExpire
  \/ RaceOptimizeExpireResume

SpecRace == InitRace /\ [][NextRace]_vars

(***************************************************************************)
(* Properties                                                              *)
(***************************************************************************)
\* a get step that reached the store and got an answer
GetAnswered == last'.op = "get" /\ last'.ok

\* a get step whose previous step was a successful set of the same key
GetAfterSet ==
  /\ last.op = "set" /\ last.ok
  /\ GetAnswered /\ last'.key = last.key

\* values json represents natively: str-keyed dicts, lists, strings, None
JsonNative(v) ==
  \/ v.type \in {"list", "str", "NoneType"}
  \/ v.type = "dict" /\ v.ktype = "str"

\* C1 as stated: for every serialisable value V, a get that immediately
\* follows a successful set of V on the same key returns a value equal to V,
\* adds exactly 1 to the hit counter and leaves the miss counter unchanged.
HitAfterSetAnyValue ==
  [][GetAfterSet =>
       /\ last'.value = last.arg
       /\ metrics'.hits = metrics.hits + 1
       /\ metrics'.misses = metrics.misses]_vars

\* C1 amended: the same for every value V that json represents natively
\* (a tuple comes back as a list, a dict with int keys as a str-keyed dict);
\* for every serialisable V the get is a hit that returns loads(dumps(V)).
HitAfterSet ==
  [][GetAfterSet =>
       /\ JsonNative(last.arg) => last'.value = last.arg
       /\ last'.value.type \in {"list", "dict", "str", "NoneType"}
       /\ last'.value.body = last.arg.body
       /\ metrics'.hits = metrics.hits + 1
       /\ metrics'.misses = metrics.misses]_vars

\* C1 witness: a dict was set with a context and the get that followed at
\* once returned it, as the first hit
HitAfterSetWitness ==
  /\ last.op = "get" /\ last.ok
  /\ last.key = GenerateCacheKey(<<"suggestion">>, <<"database">>, CtxBA)
  /\ last.before.op = "set" /\ last.before.arg = VDict
  /\ last.value = VDict
  /\ metrics.hits = 1 /\ metrics.misses = 0

\* C2: a get, answered by the store, of a key that no set ever wrote returns
\* None, adds exactly 1 to the miss counter and changes neither the hit
\* counter nor any access counter.
MissAfterAbsent ==
  [][(GetAnswered /\ last'.key \notin DOMAIN fate) =>
       /\ last'.value = PyNone
       /\ metrics'.misses = metrics.misses + 1
       /\ metrics'.hits = metrics.hits
       /\ access_counts' = access_counts]_vars

\* C2 witness: a miss on a never written key while another key is stored
\* and has been hit
MissAfterAbsentWitness ==
  /\ last.op = "get" /\ last.ok /\ last.key \notin DOMAIN fate
  /\ last.value = PyNone
  /\ metrics.misses = 1 /\ metrics.hits >= 1
  /\ DOMAIN store # {} /\ DOMAIN access_counts # {}

\* C3: a get that immediately follows an invalidate(c, i, x) of the same key
\* that the store carried out returns None, whatever the key was before
\* (absent, present, hot, in the warm set).
InvalidateThenMiss ==
  [][(/\ last.op = "invalidate" /\ last.ok
      /\ last'.op = "get" /\ last'.key = last.key /\ ~last'.raised) =>
       /\ last'.value = PyNone
       /\ last'.store_error \/ metrics'.misses = metrics.misses + 1]_vars

\* C3 witness: the key was stored, hot and in the warm set, was invalidated,
\* and the next get missed
InvalidateThenMissWitness ==
  /\ last.op = "get" /\ last.ok /\ last.value = PyNone
  /\ last.before.op = "invalidate"
  /\ {"present", "hot", "warm"} \subseteq last.before.pre

\* C4: a get, answered by the store, of a key whose entry left the store by
\* TTL expiry or by the loss of the store returns None and counts exactly one
\* miss, no hit and no access, whatever access counter or warm-set record
\* the cache still holds for the key: exactly as for a key never written.
AbsenceIsMiss ==
  [][(/\ GetAnswered /\ last'.key \in DOMAIN fate
      /\ fate[last'.key] \in {"expired", "lost"}) =>
       /\ last'.value = PyNone
       /\ metrics'.misses = metrics.misses + 1
       /\ metrics'.hits = metrics.hits
       /\ access_counts' = access_counts
       /\ warm_cache_keys' = warm_cache_keys]_vars

\* C4 witness: the store was lost while the cache still counted accesses of
\* the key and held it in the warm set; the next get missed
AbsenceIsMissWitness ==
  /\ last.op = "get" /\ last.ok /\ last.value = PyNone
  /\ last.key \in DOMAIN fate /\ fate[last.key] = "lost"
  /\ last.key \in warm_cache_keys /\ AccessCount(last.key) >= 1
  /\ metrics.misses = 1

SameItems(x, y) ==
  {x[n] : n \in 1..Len(x)} = {y[n] : n \in 1..Len(y)}

\* C5: two triples with the same category and identifier whose contexts hold
\* the same entries, in the same or in any other order, get the same key.
KeyDeterminism ==
  (/\ probe.phase = "built"
   /\ probe.a.cache_type = probe.b.cache_type
   /\ probe.a.identifier = probe.b.identifier
   /\ SameItems(probe.a.context, probe.b.context)) => probe.ka = probe.kb

\* C5 witness: two different orders of a three-entry context, one key
KeyDeterminismWitness ==
  /\ probe.phase = "built"
  /\ Len(probe.a.context) = 3 /\ probe.a.context # probe.b.context
  /\ SameItems(probe.a.context, probe.b.context)
  /\ probe.a.cache_type = probe.b.cache_type
  /\ probe.a.identifier = probe.b.identifier
  /\ probe.ka = probe.kb

\* C6 as stated: two triples with non-empty category and identifier that
\* differ in the category, the identifier or the context entries get
\* different keys.
KeyDistinctness ==
  (/\ probe.phase = "built"
   /\ probe.a.cache_type # <<>> /\ probe.a.identifier # <<>>
   /\ probe.b.cache_type # <<>> /\ probe.b.identifier # <<>>
   /\ \/ probe.a.cache_type # probe.b.cache_type
      \/ probe.a.identifier # probe.b.identifier
      \/ ~SameItems(probe.a.context, probe.b.context)) => probe.ka # probe.kb

\* a set that resolved its TTL from the strategy: no override, no exception
SetByStrategy ==
  /\ last.op = "set" /\ ~last.raised /\ last.ttl_override = <<>>
  /\ JsonSerializable(last.arg)

\* the TTL a set of last.key with strategy s and no override would write now
WouldWrite(s) == DetermineTTL(last.key, s, <<>>)

\* C7 as stated: for a key with access count 0 and no override, the TTL
\* written by set is ordered aggressive > adaptive > moderate > conservative.
StrategyOrdering ==
  (SetByStrategy /\ last.ok /\ AccessCount(last.key) = 0) =>
    /\ store[last.key].ttl = WouldWrite(last.strategy)
    /\ WouldWrite(AGGRESSIVE) > WouldWrite(ADAPTIVE)
    /\ WouldWrite(ADAPTIVE) > WouldWrite(MODERATE)
    /\ WouldWrite(MODERATE) > WouldWrite(CONSERVATIVE)

AdaptiveFirstSetBase ==
  (SetByStrategy /\ last.ok /\ last.strategy = ADAPTIVE) =>
    /\ last.key \notin DOMAIN access_counts => store[last.key].ttl = 600
    /\ AccessCount(last.key) = 15 => store[last.key].ttl > 600

\* C10: a set without override whose strategy is aggressive, moderate or
\* conservative writes 3600, 900 or 300 seconds at every access count, and
\* a set that names no strategy uses the configured default strategy.
FixedTTL ==
  (SetByStrategy /\ last.ok) =>
    /\ last.strategy = AGGRESSIVE => store[last.key].ttl = 3600
    /\ last.strategy = MODERATE => store[last.key].ttl = 900
    /\ last.strategy = CONSERVATIVE => store[last.key].ttl = 300
    /\ last.strategy_arg = NoStrategy => last.strategy = default_strategy
    /\ last.strategy_arg # NoStrategy => last.strategy = last.strategy_arg

\* C10 witness: a set naming no strategy on a cache configured aggressive
\* wrote 3600 seconds for a hot key
FixedTTLWitness ==
  /\ SetByStrategy /\ last.ok /\ last.strategy_arg = NoStrategy
  /\ default_strategy = AGGRESSIVE
  /\ AccessCount(last.key) > 10
  /\ store[last.key].ttl = 3600

\* C11 as stated: for every TTL override the caller supplies to set, that
\* value is the TTL passed to the backing store, whatever the strategy and
\* the access count of the key.
OverrideVerbatim ==
  (/\ last.op = "set" /\ ~last.raised
   /\ last.ttl_override # <<>>
   /\ JsonSerializable(last.arg)) =>
    last.ttl = last.ttl_override[1]

\* the outcome of an invalidate that scanned a category: its key is the
\* scan pattern, which ends in "*"
ByType(o) == o.op = "invalidate" /\ o.key[Len(o.key)] = "*"

\* C12: an invalidate with an identifier that the store carries out removes
\* exactly the key built from (category, identifier, context), forgets the
\* access counter of that key, returns the number of keys removed and adds
\* it to the eviction count; the entry, TTL and access counter of every
\* other key are unchanged.
InvalidateOne ==
  [][(last'.op = "invalidate" /\ last'.ok /\ ~ByType(last')) =>
       LET key == last'.key
           removed == IF key \in DOMAIN store THEN 1 ELSE 0
       IN /\ key \notin DOMAIN store'
          /\ key \notin DOMAIN access_counts'
          /\ last'.deleted = removed
          /\ metrics'.evictions = metrics.evictions + removed
          /\ \A k \in (DOMAIN store \cup DOMAIN store') \ {key} :
               k \in DOMAIN store /\ k \in DOMAIN store' /\ store'[k] = store[k]
          /\ \A k \in (DOMAIN access_counts \cup DOMAIN access_counts') \ {key} :
               /\ k \in DOMAIN access_counts /\ k \in DOMAIN access_counts'
               /\ access_counts'[k] = access_counts[k]]_vars

\* C12 witness: an invalidate with an identifier removed a stored, tracked
\* key and returned 1 while the key of the other category remained stored
InvalidateOneWitness ==
  /\ last.op = "invalidate" /\ last.ok /\ ~ByType(last)
  /\ last.deleted = 1 /\ metrics.evictions = 1
  /\ {"present", "tracked"} \subseteq last.pre
  /\ last.key \notin DOMAIN store \cup DOMAIN access_counts
  /\ DOMAIN store # {}

\* the keys the callers build for a category
KeysOfCategory(cache_type) ==
  {KeyOf(t) : t \in {u \in TypeTriples : u.cache_type = cache_type}}

\* C13 as stated: an invalidate without identifier that the store carries
\* out removes every stored key of the category, forgets the access
\* counters of the removed keys, returns their number and adds it to the
\* eviction count; the keys of every other category and their counters are
\* unchanged.
InvalidateType ==
  [][\A c \in TypeCategories :
       (/\ last'.op = "invalidate" /\ last'.ok
        /\ last'.key = KEY_PREFIX \o <<":">> \o c \o <<":", "*">>) =>
         LET mine == KeysOfCategory(c)
             removed == mine \cap DOMAIN store
         IN /\ mine \cap DOMAIN store' = {}
            /\ removed \cap DOMAIN access_counts' = {}
            /\ last'.deleted = Cardinality(removed)
            /\ metrics'.evictions = metrics.evictions + Cardinality(removed)
            /\ \A k \in DOMAIN store \ mine :
                 k \in DOMAIN store' /\ store'[k] = store[k]
            /\ \A k \in DOMAIN access_counts \ mine :
                 /\ k \in DOMAIN access_counts'
                 /\ access_counts'[k] = access_counts[k]]_vars

\* entry i of a batch is one whose set succeeds: it has its fields, json
\* can encode its value and the store takes the write
EntrySucceeds(entries, errs, i) ==
  /\ EntryComplete(entries[i])
  /\ JsonSerializable(entries[i].value)
  /\ i \notin errs

EntryKey(entry) ==
  GenerateCacheKey(entry.cache_type, entry.identifier, EntryContext(entry))

\* C14: warm_cache applies set to every entry of the batch; an entry whose
\* set fails (value json cannot encode, missing field, store failure) does
\* not abort the batch: the returned count is the number of entries whose
\* set succeeds, the total minus the failing ones, and every such entry is
\* written (the last one of a key is the one stored).
WarmTolerant ==
  (last.op = "warm_cache" /\ ~last.raised) =>
    LET entries == last.report.entries
        errs == last.report.errs
        good == {i \in 1..Len(entries) : EntrySucceeds(entries, errs, i)}
        failing == (1..Len(entries)) \ good
    IN /\ last.report.success_count = Cardinality(good)
       /\ last.report.success_count = Len(entries) - Cardinality(failing)
       /\ \A i \in good :
            LET key == EntryKey(entries[i])
                same == {j \in good : EntryKey(entries[j]) = key}
                final == CHOOSE j \in same : \A h \in same : h <= j
            IN /\ key \in DOMAIN store
               /\ store[key].value = JsonDumps(entries[final].value)
               /\ fate[key] = "written"

\* C14 witness: a batch of two whose first entry lacks a field or holds a
\* value json cannot encode returned 1 and wrote the second entry
WarmTolerantWitness ==
  /\ last.op = "warm_cache" /\ ~last.raised
  /\ Len(last.report.entries) = 2
  /\ ~EntrySucceeds(last.report.entries, last.report.errs, 1)
  /\ EntrySucceeds(last.report.entries, last.report.errs, 2)
  /\ last.report.success_count = 1
  /\ EntryKey(last.report.entries[2]) \in DOMAIN store

\* key k has the same entry (or none) and the same counter after the step
SameKey(k) ==
  /\ (k \in DOMAIN store) = (k \in DOMAIN store')
  /\ k \in DOMAIN store => store'[k] = store[k]
  /\ k \in DOMAIN access_counts' /\ access_counts'[k] = access_counts[k]

\* C15: an optimize pass that the store carries out deletes every tracked
\* key with count below 2 from the store and forgets it, sets the TTL of a
\* tracked key with count above 10 and remaining TTL under 1800 s to 3600 s,
\* and leaves every other tracked key unchanged in store and tracker; the
\* report has keys_analyzed = the number of tracked keys before the pass
\* and keys_evicted = the number of cold keys it removed from the store.
OptimizePass ==
  [][(last'.op = "optimize_cache" /\ last'.ok) =>
       LET cold == {k \in DOMAIN access_counts : access_counts[k] < 2}
       IN /\ \A k \in DOMAIN access_counts :
               LET count == access_counts[k]
                   short == k \in DOMAIN store /\ store[k].ttl < 1800
               IN /\ count < 2 =>
                       k \notin DOMAIN store' /\ k \notin DOMAIN access_counts'
                  /\ (count > 10 /\ short) =>
                       /\ k \in DOMAIN store' /\ store'[k].ttl = 3600
                       /\ store'[k].value = store[k].value
                       /\ k \in DOMAIN access_counts' /\ access_counts'[k] = count
                  /\ (count \in 2..10 \/ (count > 10 /\ ~short)) => SameKey(k)
          /\ last'.report.keys_analyzed = Cardinality(DOMAIN access_counts)
          /\ last'.report.keys_evicted = Cardinality(cold \cap DOMAIN store)]_vars

\* C15 witness: a pass over two tracked keys evicted the one read once and
\* extended the one read 11 times from under 1800 s to 3600 s
OptimizePassWitness ==
  /\ last.op = "optimize_cache" /\ last.ok
  /\ last.report.keys_analyzed = 2 /\ last.report.keys_evicted = 1
  /\ KeyOf(OptCold) \notin DOMAIN store \cup DOMAIN access_counts
  /\ fate[KeyOf(OptCold)] = "evicted"
  /\ AccessCount(KeyOf(OptHot)) = 11
  /\ KeyOf(OptHot) \in DOMAIN store /\ store[KeyOf(OptHot)].ttl = 3600

\* C16: a clear_all that the store carries out removes every key of the
\* cache's namespace and no key outside it, empties the access counters and
\* the warm set and returns True; a second clear_all right after it finds
\* zero keys, returns True and leaves the state as it was.
ClearAllIdempotent ==
  [][(last'.op = "clear_all" /\ last'.ok) =>
       /\ \A t \in TypeTriples : KeyOf(t) \notin DOMAIN store'
       /\ \A k \in ForeignKeys :
            /\ (k \in DOMAIN store) = (k \in DOMAIN store')
            /\ k \in DOMAIN store => store'[k] = store[k]
       /\ DOMAIN store' \subseteq DOMAIN store
       /\ access_counts' = <<>>
       /\ warm_cache_keys' = {}
       /\ (last.op = "clear_all" /\ last.ok) =>
            /\ last'.deleted = 0
            /\ store' = store
            /\ access_counts' = access_counts
            /\ warm_cache_keys' = warm_cache_keys
            /\ metrics' = metrics]_vars

\* C16 witness: a clear_all removed two cache keys, one of them read
\* before, and left the other user's key in the store
ClearAllIdempotentWitness ==
  /\ last.op = "clear_all" /\ last.ok /\ last.deleted = 2
  /\ metrics.hits = 1
  /\ ForeignKeys \subseteq DOMAIN store
  /\ DOMAIN store = ForeignKeys
  /\ access_counts = <<>> /\ warm_cache_keys = {}
  /\ \E k \in DOMAIN fate : fate[k] = "cleared"

\* C17: a get whose read of the store fails returns None, raises nothing
\* and changes neither the stored entries nor any access counter.
GetStoreFailure ==
  [][(last'.op = "get" /\ last'.store_error) =>
       /\ last'.value = PyNone
       /\ ~last'.raised
       /\ store' = store
       /\ access_counts' = access_counts
       /\ metrics'.hits = metrics.hits]_vars

\* C17 witness: the read failed for a key that is stored and was read before
GetStoreFailureWitness ==
  /\ last.op = "get" /\ last.store_error /\ ~last.raised
  /\ last.value = PyNone
  /\ last.key \in DOMAIN store
  /\ AccessCount(last.key) = 1

\* C18 as stated: a get that finds under its key a text json.loads cannot
\* read returns None without raising and is accounted as a miss: the miss
\* counter grows by 1, the hit counter and the access counter of the key do
\* not grow.
CorruptIsMiss ==
  [][(/\ last'.op = "get" /\ ~last'.raised /\ ~last'.store_error
      /\ last'.key \in DOMAIN store
      /\ ~JsonParsable(store[last'.key].value)) =>
       /\ last'.value = PyNone
       /\ metrics'.misses = metrics.misses + 1
       /\ metrics'.hits = metrics.hits
       /\ access_counts' = access_counts]_vars

\* a set or an invalidate that got to its store call and failed there, or
\* a set of a value json cannot encode
FailedWrite(o) ==
  /\ o.op \in {"set", "invalidate"}
  /\ o.store_error \/ (o.op = "set" /\ ~JsonSerializable(o.arg))

\* C19: a set or invalidate that fails (the write, delete or scan fails in
\* the store, or json cannot encode the value) returns False or 0, raises
\* nothing and mutates nothing: the access counters, the warm set, the
\* eviction count and the stored entries are as before the call.
FailureMutatesNothing ==
  [][FailedWrite(last') =>
       /\ ~last'.raised
       /\ ~last'.ok /\ last'.deleted = 0
       /\ access_counts' = access_counts
       /\ warm_cache_keys' = warm_cache_keys
       /\ metrics'.evictions = metrics.evictions
       /\ store' = store]_vars

\* C19 witness: the delete of a stored, tracked and warm key failed and the
\* key is still stored, tracked and warm
FailureMutatesNothingWitness ==
  /\ last.op = "invalidate" /\ last.store_error /\ ~ByType(last)
  /\ last.deleted = 0
  /\ last.key \in DOMAIN store
  /\ last.key \in DOMAIN access_counts
  /\ last.key \in warm_cache_keys

PublicOperations ==
  {"get", "set", "invalidate", "warm_cache", "optimize_cache", "get_metrics",
   "clear_all"}

\* C20 as stated: whatever fails in the store, the connect at the head of
\* the operation included, no public operation lets an exception out: it
\* returns its miss or failure value.
NoExceptionCrosses ==
  last.op \in PublicOperations => ~last.raised

\* C21 as stated: a set whose strategy is not one of the four named
\* strategies fails loudly at the call, with or without a TTL override, and
\* writes nothing to the store (ok records that the entry was written).
BogusStrategyFailsFast ==
  (last.op = "set" /\ last.strategy_arg = BogusStrategy) =>
    /\ last.raised
    /\ ~last.ok

\* C22: get_metrics changes none of the hit, miss and eviction counts, the
\* access counters, the warm set and the stored entries; with a client it
\* sets the memory footprint to what the store answers, and when that query
\* fails it keeps the previous footprint and still returns without raising.
GetMetricsReadOnly ==
  [][last'.op = "get_metrics" =>
       /\ last'.ok /\ ~last'.raised
       /\ metrics'.hits = metrics.hits
       /\ metrics'.misses = metrics.misses
       /\ metrics'.evictions = metrics.evictions
       /\ access_counts' = access_counts
       /\ warm_cache_keys' = warm_cache_keys
       /\ store' = store
       /\ metrics'.cache_size_bytes =
            IF client /\ ~last'.store_error
              THEN last'.report.used_memory
              ELSE metrics.cache_size_bytes]_vars

\* C22 witness: the query failed after an earlier get_metrics had recorded
\* a footprint, which is still the one reported, next to a counted hit
GetMetricsReadOnlyWitness ==
  /\ last.op = "get_metrics" /\ last.ok /\ last.store_error
  /\ metrics.cache_size_bytes = 2048
  /\ metrics.hits = 1
  /\ store # <<>> /\ access_counts # <<>>

\* what the lookup of a wrapper step returns, from the state before the step
LookupResult(o) ==
  IF /\ "get_failed" \notin o.pre
     /\ o.key \in DOMAIN store
     /\ JsonParsable(store[o.key].value)
    THEN JsonLoads(store[o.key].value)
    ELSE PyNone

\* C23: a wrapper call whose lookup returns a value returns that value,
\* does not execute the function and does not write; one whose lookup
\* returns None executes the function once, calls set once with the result
\* and the configured cache type, strategy and TTL override, and returns
\* the result; the entry a successful set leaves has the configured TTL.
WrapperCallsOnce ==
  [][(last'.op = "wrapper" /\ ~last'.raised) =>
       IF LookupResult(last') # PyNone
         THEN /\ last'.value = LookupResult(last')
              /\ last'.report.executed = 0
              /\ last'.report.set_calls = 0
              /\ store' = store
         ELSE /\ last'.report.executed = 1
              /\ last'.report.set_calls = 1
              /\ last'.value = last'.arg
              /\ \E call \in WrapCalls, config \in WrapConfigs :
                   /\ last'.key = GenerateCacheKey(config.cache_type,
                                                   IdentifierHash(call), <<>>)
                   /\ last'.arg = call.result
                   /\ last'.strategy = config.strategy
                   /\ last'.ttl_override = config.ttl_override
                   /\ last'.ttl = IF config.ttl_override # <<>>
                                    THEN config.ttl_override[1]
                                    ELSE TTL_MAPPING[config.strategy]
              /\ "set_failed" \notin last'.pre =>
                   store'[last'.key] =
                     [value |-> JsonDumps(last'.arg), ttl |-> last'.ttl]]_vars

\* C23 witness: a call found the empty list an earlier call had cached and
\* returned it without executing the function
WrapperCallsOnceWitness ==
  /\ last.op = "wrapper" /\ last.ok
  /\ last.value = VEmptyList
  /\ last.report.executed = 0 /\ last.report.set_calls = 0
  /\ metrics.hits = 1
  /\ fate[last.key] = "written"

\* the step may forget the counter of key k: it is an invalidate of k or of
\* its category that removed k, an optimize pass for which k is cold, or a
\* clear_all
Forgets(k) ==
  \/ /\ last'.op = "invalidate" /\ last'.ok
     /\ IF ByType(last')
          THEN k \in DOMAIN store /\ k \notin DOMAIN store'
          ELSE k = last'.key
  \/ last'.op = "optimize_cache" /\ ~last'.raised /\ access_counts[k] < 2
  \/ last'.op = "clear_all" /\ last'.ok

\* the step has to forget the counter of key k
MustForget(k) ==
  \/ /\ last'.op = "invalidate" /\ last'.ok
     /\ IF ByType(last')
          THEN k \in DOMAIN store /\ k \notin DOMAIN store'
          ELSE k = last'.key
  \/ last'.op = "optimize_cache" /\ last'.ok /\ access_counts[k] < 2
  \/ last'.op = "clear_all" /\ last'.ok

\* C24: in every step the access count of a tracked key stays or grows
\* unless the step forgets it, and a counter is forgotten exactly by an
\* invalidate that removes the key, by an optimize pass that finds it cold
\* and by clear_all: never by get, set, warm_cache, get_metrics, a failed
\* operation or the expiry of the entry.
CountsMonotone ==
  [][\A k \in DOMAIN access_counts :
       /\ k \in DOMAIN access_counts' => access_counts'[k] >= access_counts[k]
       /\ k \notin DOMAIN access_counts' => Forgets(k)
       /\ MustForget(k) => k \notin DOMAIN access_counts']_vars

\* C24 witness: an optimize pass forgot the only tracked key, read once
CountsMonotoneWitness ==
  /\ last.op = "optimize_cache" /\ last.ok
  /\ last.report.keys_analyzed = 1
  /\ access_counts = <<>>
  /\ metrics.hits = 1

\* C25 as stated: the access counter of a key counts the gets and sets of
\* the key since its last reset: every get or set the store carried out
\* creates the counter or adds 1 to it.
CountsGetsAndSets ==
  [][(last'.op \in {"get", "set"} /\ last'.ok) =>
       /\ last'.key \in DOMAIN access_counts'
       /\ access_counts'[last'.key] = AccessCount(last'.key) + 1]_vars


\* the step wrote key k by a set that succeeded with the effective strategy
\* aggressive: a call of set, or the set of an entry of a warm_cache batch
AggressiveWrite(k) ==
  \/ /\ last'.op = "set" /\ last'.ok
     /\ last'.key = k
     /\ last'.strategy = AGGRESSIVE
     /\ last'.strategy =
          (IF last'.strategy_arg = NoStrategy
             THEN default_strategy ELSE last'.strategy_arg)
  \/ /\ last'.op = "warm_cache" /\ last'.ok
     /\ last'.strategy_arg = AGGRESSIVE
     /\ \E i \in 1..Len(last'.report.entries) :
          /\ EntrySucceeds(last'.report.entries, last'.report.errs, i)
          /\ EntryKey(last'.report.entries[i]) = k

\* the step removed key k by invalidate, by the cold eviction of an optimize
\* pass or by clear_all
Removes(k) ==
  \/ /\ last'.op = "invalidate" /\ last'.ok
     /\ IF ByType(last')
          THEN k \in DOMAIN store /\ k \notin DOMAIN store'
          ELSE k = last'.key
  \/ /\ last'.op = "optimize_cache"
     /\ k \in DOMAIN store /\ k \notin DOMAIN store'
  \/ last'.op = "clear_all" /\ last'.ok

\* C26: a key enters the warm set only in a step that writes it by a
\* successful set with effective strategy aggressive (explicit or default);
\* a step that invalidates, cold-evicts or clears the key leaves it outside
\* the warm set; so every key of the warm set was written and its last fate
\* is none of invalidated, evicted, cleared. A set that fails or uses
\* another strategy adds no key.
WarmSetInvariant ==
  [][/\ \A k \in warm_cache_keys' \ warm_cache_keys : AggressiveWrite(k)
     /\ \A k \in warm_cache_keys : Removes(k) => k \notin warm_cache_keys'
     /\ \A k \in warm_cache_keys' :
          /\ k \in DOMAIN fate'
          /\ fate'[k] \notin {"invalidated", "evicted", "cleared"}
     /\ (last'.op = "set" /\ (~last'.ok \/ last'.strategy # AGGRESSIVE))
          => warm_cache_keys' = warm_cache_keys]_vars

\* C26 witness: a set without a strategy on a cache whose default strategy
\* is aggressive succeeded and its key is in the warm set
WarmSetInvariantWitness ==
  /\ last.op = "set" /\ last.ok
  /\ last.strategy_arg = NoStrategy /\ default_strategy = AGGRESSIVE
  /\ last.key \in warm_cache_keys


\* C27 as stated: the eviction count tracks every eviction: a step adds to
\* it the number of keys an invalidate or the cold eviction of an optimize
\* pass removed from the store, reset_metrics sets it to 0, and no other
\* step changes it.
EvictionsTrackAll ==
  [][metrics'.evictions =
       IF last'.op = "reset_metrics" THEN 0
       ELSE IF last'.op \in {"invalidate", "optimize_cache"}
              THEN metrics.evictions
                     + Cardinality(DOMAIN store \ DOMAIN store')
              ELSE metrics.evictions]_vars


\* call id resumes in this step: it had its reply and is gone afterwards
Resumes(id) == CallOf(id).pc = "replied" /\ probe'.calls[id].pc = "idle"

\* C28: with any number of gets in flight, interleaved at their store round
\* trips, after every step hits + misses is the number of gets that ended
\* without a store error and hits is the number of gets that returned a
\* value; a get that resumes with an entry adds exactly 1 to the counter
\* the key has at that moment (none counts as 0), and no other step but one
\* that forgets a counter changes any.
NoLostUpdates ==
  [][/\ metrics'.hits + metrics'.misses = probe'.completed
     /\ metrics'.hits = probe'.returned
     /\ \A id \in DOMAIN probe.calls :
          Resumes(id) =>
            access_counts' =
              IF last'.value # PyNone
                THEN Put(access_counts, CallOf(id).key,
                         AccessCount(CallOf(id).key) + 1)
                ELSE access_counts
     /\ (\A id \in DOMAIN probe.calls : ~Resumes(id)) =>
          \/ access_counts' = access_counts
          \/ /\ last'.op = "invalidate"
             /\ access_counts' = Drop(access_counts, {last'.key})]_vars

\* C28 witness: two gets of one key are under way, both were answered with
\* the entry; one has resumed and counted its hit, the other still waits
NoLostUpdatesWitness ==
  /\ last.op = "get" /\ last.ok /\ last.value # PyNone
  /\ metrics.hits = 1 /\ AccessCount(last.key) = 1
  /\ \E id \in DOMAIN probe.calls :
       /\ CallOf(id).pc = "replied"
       /\ CallOf(id).key = last.key
       /\ CallOf(id).reply.value # <<>>


\* C30 as stated: operations on a cache without a client connect before
\* they use the store and connect on a connected cache makes no client, so
\* that at most one client is made between two disconnects, also when
\* several operations start together on an unconnected cache.
OneClientPerConnection == probe.created <= 1

\* the store serves the read of get call id in this step
Reads(id) ==
  /\ CallOf(id).op = "get" /\ CallOf(id).pc = "sent"
  /\ probe'.calls[id].pc = "replied"
  /\ ~probe'.calls[id].reply.err

\* C29: under every interleaving of an optimize pass with a get and a set
\* of a key, the store answers the get with nothing or with the text of
\* the last set it applied to the key, and with nothing when the key was
\* evicted after that set; the get returns the value so read or None, and
\* optimize changes no text in the store.
OptimizeRaceHarmless ==
  [][/\ \A id \in DOMAIN probe.calls :
          /\ Reads(id) =>
               LET key == CallOf(id).key
                   value == probe'.calls[id].reply.value
               IN /\ value # <<>> =>
                       /\ key \in DOMAIN probe.applied
                       /\ value = <<probe.applied[key]>>
                  /\ (key \in DOMAIN fate /\ fate[key] = "evicted")
                       => value = <<>>
          /\ Resumes(id) /\ CallOf(id).op = "get" =>
               last'.value =
                 (IF CallOf(id).reply.err \/ CallOf(id).reply.value = <<>>
                    THEN PyNone
                    ELSE JsonLoads(CallOf(id).reply.value[1]))
     /\ \A k \in DOMAIN store \cap DOMAIN store' :
          store'[k].value # store[k].value =>
            \E id \in DOMAIN probe.calls :
              /\ CallOf(id).op = "set" /\ CallOf(id).key = k
              /\ probe'.calls[id].pc = "replied"]_vars

\* C29 witness: a set refreshed the key while an optimize pass that found
\* it cold was under way, the pass then evicted it, and a get read after
\* that was answered with nothing; the set has not yet resumed
OptimizeRaceHarmlessWitness ==
  /\ CallOf(SetSlot).op = "set" /\ CallOf(SetSlot).pc = "replied"
  /\ ~CallOf(SetSlot).reply.err
  /\ CallOf(SetSlot).key \in DOMAIN fate
  /\ fate[CallOf(SetSlot).key] = "evicted"
  /\ CallOf(GetSlot).op = "get" /\ CallOf(GetSlot).pc = "replied"
  /\ CallOf(GetSlot).key = CallOf(SetSlot).key
  /\ ~CallOf(GetSlot).reply.err /\ CallOf(GetSlot).reply.value = <<>>
  /\ CallOf(OptSlot).pc = "deleted"

====
